---- MODULE Spec2Model ----
(***************************************************************************)
(* A model of the ArenaGame renderer: the three fragment shaders (level,   *)
(* bonfire/torch, sword) as functions over exact rational arithmetic, and  *)
(* Renderer::render as a state machine over the shaders' uniform stores.   *)
(*                                                                         *)
(* Numbers.  A GLSL float is modelled as <<n, d>>, the rational n/d in     *)
(* lowest terms with d > 0, extended with the IEEE specials <<1, 0>>       *)
(* (+Inf), <<-1, 0>> (-Inf) and <<0, 0>> (NaN), so that a division by zero *)
(* is modelled by what it produces.  The shaders are evaluated without the *)
(* rounding of the 32-bit float format; quantizeColor is studied with it   *)
(* (Fl, quantizeFloat).                                                    *)
(*                                                                         *)
(* Geometry.  normalize, dot and length of the shaders take square roots;  *)
(* the model takes their results as the fragment's inputs: the cosine      *)
(* dot(normal, lightDir) in [-1, 1] and the distances length(...) >= 0.    *)
(* Likewise sin(...) is an input in [-1, 1] wherever the shader calls it.  *)
(***************************************************************************)
EXTENDS Integers, Sequences, FiniteSets, TLC

VARIABLES
    pc,         \* position of the modelled control flow
    uniforms,   \* uniforms[s]: the uniform store of shader program s
    frag,       \* the fragment being shaded (per-fragment inputs)
    nanClamp,   \* what this GPU's clamp() returns for a NaN argument
    shaded,     \* which shader produced `out`
    out,        \* locals and output of the last shader invocation
    clock,      \* the wall clock glfwGetTime() reads, in clock steps
    hasBrokenSword,  \* GameState::hasBrokenSword
    swordType,  \* GameState::swordType
    alphaArg,   \* alphaArg[s]: the last value passed for material.alpha of program s, if any
    blend,      \* GL_BLEND is enabled
    depthMask,  \* the depth buffer is writable
    draws,      \* the draw calls of the current frame, in order
    quantIn,    \* arguments of quantizeColor under study: levels and two colour values
    quantOut,   \* what quantizeColor returned for them
    gameState,  \* the GameState object: camera position, timing, cursor and UI flags
    engine,     \* the GameEngine around it: frame count, assets, and what the frame did
    interact,   \* the InteractionSystem, the E key and what updateInteraction did with them
    mouse,      \* the cursor, the camera orientation and the mouse state of GameState
    steps       \* the footstep timer of GameState and the time since the last footstep

shadeVars == <<pc, uniforms, frag, nanClamp, shaded, out>>
gameVars == <<hasBrokenSword, swordType>>
glVars == <<alphaArg, blend, depthMask, draws>>
quantVars == <<quantIn, quantOut>>
loopVars == <<gameState, engine>>
unitVars == <<interact, mouse, steps>>
vars == <<shadeVars, clock, gameVars, glVars, quantVars, loopVars, unitVars>>

----------------------------------------------------------------------------
(* Floats as extended rationals *)

RECURSIVE GCD(_, _)
GCD(a, b) == IF b = 0 THEN a ELSE GCD(b, a % b)

Abs(n) == IF n < 0 THEN -n ELSE n

Sign(n) == IF n > 0 THEN 1 ELSE IF n < 0 THEN -1 ELSE 0

\* n/d in canonical form; d = 0 yields +Inf, -Inf or NaN by the sign of n
R(n, d) ==
    IF d = 0 THEN <<Sign(n), 0>>
    ELSE LET s == IF d < 0 THEN -1 ELSE 1
             g == GCD(Abs(n), Abs(d))
         IN  <<(s * n) \div g, (s * d) \div g>>

Zero == <<0, 1>>
One  == <<1, 1>>
NaN  == <<0, 0>>
PosInf == <<1, 0>>

IsNaN(x) == x = NaN
IsFinite(x) == x[2] # 0

Neg(x) == <<-x[1], x[2]>>

Add(x, y) ==
    IF x[2] = 0 /\ y[2] = 0
    THEN (IF x = y THEN x ELSE NaN)        \* Inf + Inf, Inf - Inf, NaN + .
    ELSE R(x[1] * y[2] + y[1] * x[2], x[2] * y[2])

Sub(x, y) == Add(x, Neg(y))

\* the product, cancelling across the factors first; 0 * Inf = NaN
Mul(x, y) ==
    LET g == GCD(Abs(x[1]), y[2])
        h == GCD(Abs(y[1]), x[2])
    IN  IF g = 0 \/ h = 0 THEN R(x[1] * y[1], x[2] * y[2])
        ELSE R((x[1] \div g) * (y[1] \div h), (x[2] \div h) * (y[2] \div g))

Inv(x) == R(x[2], x[1])                      \* 1/0 = +Inf, 1/Inf = 0

Div(x, y) == Mul(x, Inv(y))                  \* 0/0 = NaN

\* n1 / d1 < n2 / d2 for d1, d2 > 0, by comparing the integer parts and then
\* the reciprocals of the fractional parts, so that no product is formed
RECURSIVE LtRatio(_, _, _, _)
LtRatio(n1, d1, n2, d2) ==
    IF n1 \div d1 # n2 \div d2 THEN n1 \div d1 < n2 \div d2
    ELSE IF n2 % d2 = 0 THEN FALSE
    ELSE IF n1 % d1 = 0 THEN TRUE
    ELSE LtRatio(d2, n2 % d2, d1, n1 % d1)

\* x < y; every comparison with NaN is false
Lt(x, y) ==
    IF IsNaN(x) \/ IsNaN(y) THEN FALSE
    ELSE IF x[2] = 0 /\ y[2] = 0 THEN x[1] < y[1]
    ELSE IF x[2] = 0 THEN x[1] < 0
    ELSE IF y[2] = 0 THEN y[1] > 0
    ELSE LtRatio(x[1], x[2], y[1], y[2])

Le(x, y) == ~IsNaN(x) /\ ~IsNaN(y) /\ ~Lt(y, x)

\* GLSL floor; floor(Inf) = Inf, floor(NaN) = NaN
Floor(x) == IF x[2] = 0 THEN x ELSE <<x[1] \div x[2], 1>>

\* GLSL max(x, y): y if x < y, otherwise x
FMax(x, y) == IF Lt(x, y) THEN y ELSE x

\* GLSL min(x, y): y if y < x, otherwise x
FMin(x, y) == IF Lt(y, x) THEN y ELSE x

\* GLSL clamp(x, lo, hi) = min(max(x, lo), hi); the result for a NaN
\* argument is undefined: nm names the outcome of the build
Clamp(x, lo, hi, nm) ==
    IF IsNaN(x)
    THEN (CASE nm = "lo" -> lo [] nm = "hi" -> hi [] OTHER -> NaN)
    ELSE FMin(FMax(x, lo), hi)

\* GLSL mod(x, y) = x - y * floor(x / y)
FMod(x, y) == Sub(x, Mul(y, Floor(Div(x, y))))

\* GLSL pow(x, n) for a non-negative integer exponent n
RECURSIVE Pow(_, _)
Pow(x, n) == IF n = 0 THEN One ELSE Mul(x, Pow(x, n - 1))

\* GLSL mix(x, y, a) = x * (1 - a) + y * a
Mix(x, y, a) == Add(Mul(x, Sub(One, a)), Mul(y, a))

\* the significand of a 32-bit float has 24 bits
SIGNIFICAND_BITS == 24

\* the integer nearest to n / d, ties to the even one (n >= 0, d > 0)
RoundDiv(n, d) ==
    IF n % d < d - (n % d) THEN n \div d
    ELSE IF n % d > d - (n % d) THEN (n \div d) + 1
    ELSE (n \div d) + ((n \div d) % 2)

\* << m, p >> with (n / d) / 2^p0 nearest to m / 2^p and m of 24 bits
RECURSIVE Significand(_, _, _)
Significand(n, d, p) ==
    IF n \div d < 2 ^ (SIGNIFICAND_BITS - 1)
    THEN (IF d % 2 = 0 THEN Significand(n, d \div 2, p + 1)
                       ELSE Significand(2 * n, d, p + 1))
    ELSE IF n \div d >= 2 ^ SIGNIFICAND_BITS
    THEN Significand(n, 2 * d, p - 1)
    ELSE <<RoundDiv(n, d), p>>

\* m / 2^p for an integer p of either sign
Scaled(m, p) == IF p >= 0 THEN R(m, 2 ^ p) ELSE R(m * (2 ^ (0 - p)), 1)

\* the 32-bit float nearest to the real number x, ties to even
\* (IEEE 754 round-to-nearest on normal numbers)
Fl(x) ==
    IF x[2] = 0 \/ x[1] = 0 THEN x
    ELSE Mul(<<Sign(x[1]), 1>>, Scaled(Significand(Abs(x[1]), x[2], 0)[1],
                                        Significand(Abs(x[1]), x[2], 0)[2]))

\* the float next above (k = 1) or next below (k = -1) the positive float x;
\* below a power of two the floats lie twice as dense
Ulps(x, k) ==
    IF Significand(x[1], x[2], 0)[1] + k < 2 ^ (SIGNIFICAND_BITS - 1)
    THEN Scaled(2 * Significand(x[1], x[2], 0)[1] + k, Significand(x[1], x[2], 0)[2] + 1)
    ELSE Scaled(Significand(x[1], x[2], 0)[1] + k, Significand(x[1], x[2], 0)[2])

----------------------------------------------------------------------------
(* vec3 *)

V3(r, g, b) == <<r, g, b>>
VSplat(x) == <<x, x, x>>
VZero == VSplat(Zero)
VAdd(v, w) == [i \in 1..3 |-> Add(v[i], w[i])]
VMul(v, w) == [i \in 1..3 |-> Mul(v[i], w[i])]
VScale(v, s) == [i \in 1..3 |-> Mul(v[i], s)]
VFloor(v) == [i \in 1..3 |-> Floor(v[i])]
VMix(v, w, a) == [i \in 1..3 |-> Mix(v[i], w[i], a)]
VClamp(v, lo, hi, nm) == [i \in 1..3 |-> Clamp(v[i], lo, hi, nm)]
Dot(v, w) == Add(Add(Mul(v[1], w[1]), Mul(v[2], w[2])), Mul(v[3], w[3]))

----------------------------------------------------------------------------
(* Constants of the shaders *)

COLOR_LEVELS == 32
LIGHTING_LEVELS == 8
LEVEL_NR_POINT_LIGHTS == 8
SWORD_NR_POINT_LIGHTS == 9
BRIGHTNESS_THRESHOLD == R(7, 10)
EMISSIVE_FOG_FACTOR == R(1, 2)
DITHER_AMOUNT == R(1, 100)
DITHER_PATTERN == R(2, 1)

Levels(n) == <<n, 1>>

\* floor(x * levels) / levels on one float
Quantize(x, levels) == Div(Floor(Mul(x, Levels(levels))), Levels(levels))

\* vec3 quantizeColor(vec3 color, float levels)
quantizeColor(color, levels) ==
    [i \in 1..3 |-> Div(Floor(Mul(color[i], Levels(levels))), Levels(levels))]

\* floor(x * levels) / (levels - 1): the top level mapped to 1
QuantizeTopToOne(x, levels) ==
    Fl(Div(Floor(Fl(Mul(x, Levels(levels)))), Levels(levels - 1)))

\* ceil(x * levels) / levels: rounding up to the next level
QuantizeCeil(x, levels) ==
    Fl(Div(Neg(Floor(Neg(Fl(Mul(x, Levels(levels)))))), Levels(levels)))

\* floor(x * levels) / levels on one component as the GPU computes it: the
\* product and the quotient are each rounded to a 32-bit float
quantizeFloat(x, levels) ==
    Fl(Div(Floor(Fl(Mul(x, Levels(levels)))), Levels(levels)))

\* gl_FragCoord.xy of the pixel (px, py): the pixel centre
FragCoord(px, py) == <<R(2 * px + 1, 2), R(2 * py + 1, 2)>>

\* mod(screenPos.x + screenPos.y, 2.0) * 0.01
Dither(px, py) ==
    LET screenPos == FragCoord(px, py)
    IN  Mul(FMod(Add(screenPos[1], screenPos[2]), DITHER_PATTERN), DITHER_AMOUNT)

\* RawFogFactor measured from fogNear instead of from fogFar
RawFogFactorFromNear(fogNear, fogFar, distance, nm) ==
    Clamp(Div(Sub(distance, fogNear), Sub(fogFar, fogNear)), Zero, One, nm)

\* clamp((fogFar - distance) / (fogFar - fogNear), 0.0, 1.0)
RawFogFactor(fogNear, fogFar, distance, nm) ==
    Clamp(Div(Sub(fogFar, distance), Sub(fogFar, fogNear)), Zero, One, nm)

\* the stepped fog factor: the raw one quantized at LIGHTING_LEVELS
SteppedFogFactor(fogNear, fogFar, distance, nm) ==
    Quantize(RawFogFactor(fogNear, fogFar, distance, nm), LIGHTING_LEVELS)

\* FinalClamp with the upper bound forgotten
FinalClampLowerOnly(result, nm) == [i \in 1..3 |-> FMax(result[i], Zero)]

\* result = clamp(result, 0.0, 1.0)
FinalClamp(result, nm) == VClamp(result, Zero, One, nm)

----------------------------------------------------------------------------
(* levelFs.glsl *)

\* diff = max(dot(normal, lightDir), 0.0), quantized
QuantizedDiff(NdotL) == Quantize(FMax(NdotL, Zero), LIGHTING_LEVELS)

CalcPS1DirLight(light, NdotL, texColor) ==
    LET diff == QuantizedDiff(NdotL)
        ambient == VScale(VMul(light.ambient, texColor), R(3, 10))
        diffuse == VMul(VScale(light.diffuse, diff), texColor)
    IN  VAdd(ambient, diffuse)

\* the attenuation of a point light at the given distance, unquantized
RawAttenuation(light, distance) ==
    Div(One, Add(Add(light.constant, Mul(light.linear, distance)),
                 Mul(light.quadratic, Mul(distance, distance))))

\* PointAttenuation without the quantization step
PointAttenuationSmooth(light, distance) == RawAttenuation(light, distance)

\* the attenuation CalcPS1PointLight multiplies by
PointAttenuation(light, distance) ==
    Quantize(RawAttenuation(light, distance), LIGHTING_LEVELS)

\* CalcPS1PointLight with the attenuation applied to the diffuse term alone
CalcPS1PointLightAmbientKept(light, NdotL, distance, texColor) ==
    VAdd(VScale(VMul(light.ambient, texColor), R(1, 5)),
         VScale(VMul(VScale(light.diffuse, QuantizedDiff(NdotL)), texColor),
                PointAttenuation(light, distance)))

CalcPS1PointLight(light, NdotL, distance, texColor) ==
    LET diff == QuantizedDiff(NdotL)
        attenuation == PointAttenuation(light, distance)
        ambient == VScale(VMul(light.ambient, texColor), R(1, 5))
        diffuse == VMul(VScale(light.diffuse, diff), texColor)
    IN  VScale(VAdd(ambient, diffuse), attenuation)

\* the sum of f[i] over i in lo..hi, added in index order as the loop does
RECURSIVE VSum(_, _, _)
VSum(f, lo, hi) == IF hi < lo THEN VZero ELSE VAdd(VSum(f, lo, hi - 1), f[hi])

\* The steps of main() after the lighting sum.  Each takes the record r of
\* the values computed so far and adds the value its line of main() computes;
\* from names the field holding main()'s "result" at that line.

\* result = quantizeColor(result, COLOR_LEVELS)
QuantizeStep(r, from) == r @@ [quantized |-> quantizeColor(r[from], COLOR_LEVELS)]

\* fogFactor = ... : the fog factor main() computed
FogFactorStep(r, fogFactor) == r @@ [fogFactor |-> fogFactor]

\* result = mix(result, fogColor, fogFactor): the arguments of mix swapped
FogMixStepSwapped(r, fogColor, from) ==
    r @@ [fogged |-> VMix(r[from], fogColor, r.fogFactor)]

\* result = mix(fogColor, result, fogFactor)
FogMixStep(r, fogColor, from) == r @@ [fogged |-> VMix(fogColor, r[from], r.fogFactor)]

\* dither = ditherPattern[index] * amount
DitherStep(r, f) == r @@ [dither |-> Dither(f.px, f.py)]

\* result += dither; result = clamp(result, 0.0, 1.0); FragColor = vec4(result, 1.0)
OutputStep(r, from, nm) ==
    r @@ [rgb |-> FinalClamp(VAdd(r[from], VSplat(r.dither)), nm), alpha |-> One]

\* result = CalcPS1DirLight(...); result += CalcPS1PointLight(...) for each light
LevelSum(u, f, point) ==
    [attenuation |-> [i \in 0..(LEVEL_NR_POINT_LIGHTS - 1) |->
                        PointAttenuation(u.pointLights[i], f.lightDist)],
     point |-> point,
     lit |-> VAdd(CalcPS1DirLight(u.dirLight, f.NdotL, f.texColor),
                  VSum(point, 0, LEVEL_NR_POINT_LIGHTS - 1))]

\* the lighting of main(): lines 97-103
LevelLighting(u, f) ==
    LevelSum(u, f, [i \in 0..(LEVEL_NR_POINT_LIGHTS - 1) |->
                     CalcPS1PointLight(u.pointLights[i], f.lightCos, f.lightDist, f.texColor)])

\* LevelMain with the colour quantized after the fog mix instead of before it
LevelMainFogFirst(u, f, nm) ==
    OutputStep(
        DitherStep(
            QuantizeStep(
                FogMixStep(
                    FogFactorStep(LevelLighting(u, f),
                                  SteppedFogFactor(u.fogNear, u.fogFar, f.camDist, nm)),
                    u.fogColor, "lit"),
                "fogged"),
            f),
        "quantized", nm)

\* main() of the level shader on the uniform store u and the fragment f
LevelMain(u, f, nm) ==
    OutputStep(
        DitherStep(
            FogMixStep(
                FogFactorStep(QuantizeStep(LevelLighting(u, f), "lit"),
                              SteppedFogFactor(u.fogNear, u.fogFar, f.camDist, nm)),
                u.fogColor, "quantized"),
            f),
        "fogged", nm)

----------------------------------------------------------------------------
(* bonfireFs.glsl, the torch shader *)

calculateTorchLighting(dirLight, NdotL, texColor) ==
    LET diff == QuantizedDiff(NdotL)
        ambient == VScale(VMul(dirLight.ambient, texColor), R(3, 10))
        diffuse == VScale(VMul(VScale(dirLight.diffuse, diff), texColor), R(1, 2))
    IN  VAdd(ambient, diffuse)

\* calculateFlicker around a base of 1.0 and without the clamp
calculateFlickerUnclamped(time) ==
    Add(One, Add(Add(Mul(time.sin8, R(1, 10)), Mul(time.sin12, R(1, 20))),
                 Mul(time.sin16, R(3, 100))))

\* time carries sin(time * 8.0), sin(time * 12.0) and sin(time * 16.0)
calculateFlicker(time) ==
    LET flicker == Add(Add(Mul(time.sin8, R(1, 10)), Mul(time.sin12, R(1, 20))),
                       Mul(time.sin16, R(3, 100)))
    IN  FMin(FMax(Add(R(4, 5), flicker), R(1, 2)), One)

\* dot(texColor, vec3(0.299, 0.587, 0.114))
Luminance(texColor) == Dot(texColor, V3(R(299, 1000), R(587, 1000), R(114, 1000)))

\* the summand a texel brighter than BRIGHTNESS_THRESHOLD adds to emissive
HotSpotBoost(emissiveStrength, flicker) ==
    VScale(VScale(VScale(V3(One, R(3, 5), R(1, 10)), emissiveStrength), flicker), R(4, 5))

\* TorchEmissive with the threshold test made non-strict
TorchEmissiveAtOrAbove(texColor, emissiveStrength, flicker) ==
    LET emissive == VScale(VScale(texColor, emissiveStrength), flicker)
        brightness == Luminance(texColor)
    IN  IF Le(BRIGHTNESS_THRESHOLD, brightness)
        THEN VAdd(emissive, HotSpotBoost(emissiveStrength, flicker))
        ELSE emissive

\* the emissive term of main(): lines 66-72
TorchEmissive(texColor, emissiveStrength, flicker) ==
    LET emissive == VScale(VScale(texColor, emissiveStrength), flicker)
        brightness == Luminance(texColor)
    IN  IF Lt(BRIGHTNESS_THRESHOLD, brightness)
        THEN VAdd(emissive, HotSpotBoost(emissiveStrength, flicker))
        ELSE emissive

\* TorchFogFactor with the emissive boost added before the quantization
TorchFogFactorBoostFirst(u, distance, nm) ==
    Clamp(Quantize(Add(RawFogFactor(u.fogNear, u.fogFar, distance, nm),
                       Mul(u.material.emissiveStrength, EMISSIVE_FOG_FACTOR)),
                   LIGHTING_LEVELS),
          Zero, One, nm)

\* the fog factor of main(): lines 78-84
TorchFogFactor(u, distance, nm) ==
    LET fogFactor == SteppedFogFactor(u.fogNear, u.fogFar, distance, nm)
        emissiveFactor == Mul(u.material.emissiveStrength, EMISSIVE_FOG_FACTOR)
    IN  Clamp(Add(fogFactor, emissiveFactor), Zero, One, nm)

\* emissive, main() lines 66-72, with the flicker it was scaled by
TorchFlickered(u, f, flicker) ==
    [flicker |-> flicker,
     emissive |-> TorchEmissive(f.texColor, u.material.emissiveStrength, flicker)]

\* result = baseColor + emissive
TorchSum(base, e) == e @@ [base |-> base, lit |-> VAdd(base, e.emissive)]

\* the lighting of main(): lines 63-74
TorchLighting(u, f) ==
    TorchSum(calculateTorchLighting(u.dirLight, f.NdotL, f.texColor),
             TorchFlickered(u, f, calculateFlicker(u.time)))

\* main() of the torch shader
TorchMain(u, f, nm) ==
    OutputStep(
        DitherStep(
            FogMixStep(
                FogFactorStep(QuantizeStep(TorchLighting(u, f), "lit"),
                              TorchFogFactor(u, f.camDist, nm)),
                u.fogColor, "quantized"),
            f),
        "fogged", nm)

----------------------------------------------------------------------------
(* swordFs.glsl *)

SwordCalcPS1DirLight(light, NdotL, texColor) ==
    LET diff == QuantizedDiff(NdotL)
        ambient == VScale(VMul(light.ambient, texColor), R(3, 10))
        diffuse == VMul(VScale(light.diffuse, diff), texColor)
    IN  VAdd(ambient, diffuse)

SwordPointAttenuation(light, distance) ==
    Quantize(RawAttenuation(light, distance), LIGHTING_LEVELS)

SwordCalcPS1PointLight(light, NdotL, distance, texColor) ==
    LET diff == QuantizedDiff(NdotL)
        attenuation == SwordPointAttenuation(light, distance)
        ambient == VScale(VMul(light.ambient, texColor), R(1, 5))
        diffuse == VMul(VScale(light.diffuse, diff), texColor)
    IN  VScale(VAdd(ambient, diffuse), attenuation)

\* light.specular * pow(max(dot(viewDir, reflect(-lightDir, norm)), 0.0), shininess)
Specular(specular, RdotV, shininess) ==
    VScale(specular, Pow(FMax(RdotV, Zero), shininess[1]))

\* the specular terms main() adds: lines 80-82 and 88-91
SwordSpeculars(u, f) ==
    [dirSpecular |-> Specular(u.dirLight.specular, f.dirRdotV, u.material.shininess),
     pointSpecular |-> [i \in 0..(SWORD_NR_POINT_LIGHTS - 1) |->
                Specular(u.pointLights[i].specular, f.lightRdotV, u.material.shininess)]]

\* result = vec3(0.0); result += dirColor + dirSpecular;
\* result += CalcPS1PointLight(...) + specular for each light
SwordSum(u, f, point, s) ==
    s @@ [attenuation |-> [i \in 0..(SWORD_NR_POINT_LIGHTS - 1) |->
                             SwordPointAttenuation(u.pointLights[i], f.lightDist)],
          point |-> point,
          lit |-> VAdd(VAdd(VZero, VAdd(SwordCalcPS1DirLight(u.dirLight, f.NdotL, f.texColor),
                                        s.dirSpecular)),
                       VSum([i \in 0..(SWORD_NR_POINT_LIGHTS - 1) |->
                                VAdd(point[i], s.pointSpecular[i])],
                            0, SWORD_NR_POINT_LIGHTS - 1))]

\* the lighting of main(): lines 75-92
SwordLighting(u, f) ==
    SwordSum(u, f,
             [i \in 0..(SWORD_NR_POINT_LIGHTS - 1) |->
                SwordCalcPS1PointLight(u.pointLights[i], f.lightCos, f.lightDist, f.texColor)],
             SwordSpeculars(u, f))

\* main() of the sword shader
SwordMain(u, f, nm) ==
    OutputStep(DitherStep(QuantizeStep(SwordLighting(u, f), "lit"), f), "quantized", nm)

----------------------------------------------------------------------------
(* config.h *)

Col(r, g, b, den) == V3(R(r, den), R(g, den), R(b, den))

NUM_POINT_LIGHTS == 9
BONFIRE_LIGHT_INDEX == 8
DIR_LIGHT_AMBIENT == Col(70, 65, 55, 100)
DIR_LIGHT_DIFFUSE == Col(90, 85, 75, 100)
DIR_LIGHT_SPECULAR == Col(0, 0, 0, 1)
BONFIRE_AMBIENT_BASE == Col(15, 8, 3, 100)
BONFIRE_DIFFUSE_BASE == Col(25, 13, 5, 10)
BONFIRE_SPECULAR == Col(0, 0, 0, 1)
REGULAR_LIGHT_COLOR == Col(0, 0, 0, 1)
LIGHT_CONSTANT == R(1, 1)
BONFIRE_LINEAR == R(35, 100)
BONFIRE_QUADRATIC == R(12, 10)
REGULAR_LINEAR == R(0, 1)
REGULAR_QUADRATIC == R(0, 1)
MATERIAL_SHININESS == R(4, 1)
MATERIAL_ALPHA == R(1, 1)
FOG_NEAR == R(4, 1)
FOG_FAR == R(7, 1)
FOG_COLOR == Col(2, 2, 4, 100)
TORCH_DIR_AMBIENT == Col(10, 5, 2, 1000)
TORCH_DIR_DIFFUSE == Col(10, 8, 5, 100)
TORCH_SHININESS == R(2, 1)
TORCH_EMISSIVE_STRENGTH == R(3, 2)
STEP_COOLDOWN == R(6, 10)
BOB_AMOUNT == R(5, 100)
BOB_SPEED == R(10, 1)
MOVEMENT_THRESHOLD == R(1, 100)
CAMERA_HEIGHT == R(1, 1)
BOUNDARY_LIMIT == R(28, 10)

----------------------------------------------------------------------------
(* The uniforms each shader program declares.  A uniform a program does   *)
(* not declare has no location: it is absent from the program's store.    *)

Shaders == {"level", "bonfire", "sword"}

LevelStore(dirLight, lights, shininess, fogNear, fogFar, fogColor) ==
    [dirLight |-> dirLight,
     pointLights |-> [i \in 0..(LEVEL_NR_POINT_LIGHTS - 1) |-> lights[i]],
     material |-> [shininess |-> shininess],
     fogNear |-> fogNear, fogFar |-> fogFar, fogColor |-> fogColor]

TorchStore(dirLight, shininess, emissiveStrength, time, fogNear, fogFar, fogColor) ==
    [dirLight |-> dirLight,
     material |-> [shininess |-> shininess, emissiveStrength |-> emissiveStrength],
     time |-> time,
     fogNear |-> fogNear, fogFar |-> fogFar, fogColor |-> fogColor]

SwordStore(dirLight, lights, shininess) ==
    [dirLight |-> dirLight,
     pointLights |-> [i \in 0..(SWORD_NR_POINT_LIGHTS - 1) |-> lights[i]],
     material |-> [shininess |-> shininess]]

\* a fragment invocation of shader program s
Shade(s, u, f, nm) ==
    CASE s = "level"   -> LevelMain(u, f, nm)
      [] s = "bonfire" -> TorchMain(u, f, nm)
      [] s = "sword"   -> SwordMain(u, f, nm)

----------------------------------------------------------------------------
(* Shader inputs: the bounded sets the shaders are evaluated on *)

MaxLightDist == 3       \* light distances 0..MaxLightDist
MaxCamDist == 8         \* camera distances 0..MaxCamDist
MaxPixel == 1           \* pixel coordinates 0..MaxPixel

Grey == Col(1, 1, 1, 2)
White == Col(1, 1, 1, 1)
AtThreshold == Col(7, 7, 7, 10)     \* luminance exactly 0.7
Flame == Col(10, 6, 5, 10)          \* luminance 0.7082
Ember == Col(10, 5, 2, 10)          \* luminance 0.6153
Overbright == Col(10, 10, 10, 1)

DirLight(ambient, diffuse, specular) ==
    [ambient |-> ambient, diffuse |-> diffuse, specular |-> specular]

PointLight(att, colour) ==
    [constant |-> att[1], linear |-> att[2], quadratic |-> att[3],
     ambient |-> colour.ambient, diffuse |-> colour.diffuse, specular |-> colour.specular]

LevelDirLight == DirLight(DIR_LIGHT_AMBIENT, DIR_LIGHT_DIFFUSE, DIR_LIGHT_SPECULAR)
TorchDirLight == DirLight(TORCH_DIR_AMBIENT, TORCH_DIR_DIFFUSE, DIR_LIGHT_SPECULAR)
OverbrightDirLight == DirLight(Overbright, Overbright, Overbright)
ScenarioADirLight == DirLight(Col(5, 5, 10, 1000), Col(5, 5, 8, 100), VZero)
ShinyDirLight == DirLight(Col(1, 1, 1, 10), Col(1, 1, 1, 5), Col(3, 3, 3, 10))

RegularColour == DirLight(REGULAR_LIGHT_COLOR, REGULAR_LIGHT_COLOR, REGULAR_LIGHT_COLOR)
BonfireColour == DirLight(BONFIRE_AMBIENT_BASE, BONFIRE_DIFFUSE_BASE, BONFIRE_SPECULAR)
OverbrightColour == DirLight(Overbright, Overbright, Overbright)
DarkColour == DirLight(VZero, VZero, VZero)
ShinyColour == DirLight(Col(1, 1, 1, 10), Col(1, 1, 1, 5), Col(3, 3, 3, 10))

RegularAtt == <<LIGHT_CONSTANT, REGULAR_LINEAR, REGULAR_QUADRATIC>>
BonfireAtt == <<LIGHT_CONSTANT, BONFIRE_LINEAR, BONFIRE_QUADRATIC>>
RingAtt == <<One, R(1, 4), R(1, 4)>>
WeakAtt == <<R(1, 2), Zero, Zero>>       \* denominator 1/2 at every distance
VanishingAtt == <<Zero, R(1, 2), Zero>>  \* denominator 0 at distance 0

\* the lighting set-ups: a directional light and the colour of the active point lights
LightingSamples ==
    {<<LevelDirLight, BonfireColour>>, <<LevelDirLight, RegularColour>>,
     <<OverbrightDirLight, OverbrightColour>>, <<ScenarioADirLight, RegularColour>>,
     <<ShinyDirLight, ShinyColour>>}

AttSamples == {RegularAtt, BonfireAtt, RingAtt, WeakAtt}

\* the indices holding the active light; every other index holds a regular light
ActiveSamples == {{BONFIRE_LIGHT_INDEX}, {0}, 0..(NUM_POINT_LIGHTS - 1)}

CosSamples == {R(-1, 1), R(1, 2), R(1, 1)}
SineSamples == {R(-1, 1), R(0, 1), R(1, 1)}
ShininessSamples == {R(1, 1), MATERIAL_SHININESS}
EmissiveSamples == {Zero, R(1, 2), TORCH_EMISSIVE_STRENGTH}
FogSamples == {<<FOG_NEAR, FOG_FAR>>, <<R(999, 1), R(1000, 1)>>, <<R(2, 1), R(6, 1)>>}
BadFogSamples == {<<R(5, 1), R(5, 1)>>, <<R(7, 1), R(4, 1)>>}
FogColours == {FOG_COLOR, White}
NanOutcomes == {"lo", "hi", "nan"}

Lights(active, att, colour) ==
    [i \in 0..(NUM_POINT_LIGHTS - 1) |->
        IF i \in active THEN PointLight(att, colour) ELSE PointLight(RegularAtt, RegularColour)]

\* a value of the time uniform: the clock reading and the sines taken of it
Time(tick, s8, s12, s16) ==
    [tick |-> tick, sin8 |-> s8, sin12 |-> s12, sin16 |-> s16,
     sinF1 |-> Zero, sinF2 |-> Zero]

\* the three programs' stores holding the same values in the uniforms they declare
Stores(dirLight, lights, shininess, emissiveStrength, time, fog, fogColor) ==
    [s \in Shaders |->
        CASE s = "level" -> LevelStore(dirLight, lights, shininess, fog[1], fog[2], fogColor)
          [] s = "bonfire" -> TorchStore(dirLight, shininess, emissiveStrength, time,
                                         fog[1], fog[2], fogColor)
          [] s = "sword" -> SwordStore(dirLight, lights, shininess)]

Fragment(texColor, NdotL, lightCos, lightDist, RdotV, camDist, px, py) ==
    [texColor |-> texColor, NdotL |-> NdotL, lightCos |-> lightCos,
     lightDist |-> <<lightDist, 1>>, dirRdotV |-> RdotV, lightRdotV |-> RdotV,
     camDist |-> <<camDist, 1>>, px |-> px, py |-> py]

NoOutput == [rgb |-> VZero, alpha |-> Zero]

\* quantizeColor has not been called
NoQuantize == <<>>

\* inputs that vary the light accumulation
LightSweep ==
    \E tex \in {Grey, White}, l \in LightingSamples, att \in AttSamples,
       active \in ActiveSamples, ld \in 0..MaxLightDist,
       c \in CosSamples, lc \in {Zero, One} :
        /\ uniforms = Stores(l[1], Lights(active, att, l[2]), MATERIAL_SHININESS,
                             TORCH_EMISSIVE_STRENGTH, Time(0, Zero, Zero, Zero),
                             <<FOG_NEAR, FOG_FAR>>, FOG_COLOR)
        /\ frag = Fragment(tex, c, lc, ld, R(1, 2), 1, 0, 0)
        /\ nanClamp = "nan"

\* inputs that vary the specular highlight
SpecularSweep ==
    \E l \in {<<ShinyDirLight, ShinyColour>>, <<OverbrightDirLight, OverbrightColour>>},
       active \in ActiveSamples, sh \in ShininessSamples,
       rv \in CosSamples, ld \in 0..MaxLightDist, px \in 0..MaxPixel :
        /\ uniforms = Stores(l[1], Lights(active, RingAtt, l[2]), sh,
                             TORCH_EMISSIVE_STRENGTH, Time(0, Zero, Zero, Zero),
                             <<FOG_NEAR, FOG_FAR>>, FOG_COLOR)
        /\ frag = Fragment(Grey, One, One, ld, rv, 1, px, 0)
        /\ nanClamp = "nan"

\* inputs that vary fog and dither
FogSweep ==
    \E l \in {<<LevelDirLight, BonfireColour>>, <<OverbrightDirLight, OverbrightColour>>,
              <<ScenarioADirLight, RegularColour>>},
       fog \in FogSamples, fc \in FogColours, em \in EmissiveSamples,
       cd \in 0..MaxCamDist, px \in 0..MaxPixel, py \in 0..MaxPixel :
        /\ uniforms = Stores(l[1], Lights({0}, BonfireAtt, l[2]), MATERIAL_SHININESS,
                             em, Time(0, Zero, Zero, Zero), fog, fc)
        /\ frag = Fragment(Grey, One, One, 1, R(1, 2), cd, px, py)
        /\ nanClamp = "nan"

\* inputs around scenario A: no point light contributes, and the directional
\* light, its angle, the camera distance and the pixel vary
ScenarioSweep ==
    \E l \in {ScenarioADirLight, LevelDirLight}, c \in CosSamples, fc \in FogColours,
       cd \in 0..MaxCamDist, px \in 0..MaxPixel, py \in 0..MaxPixel :
        /\ uniforms = Stores(l, Lights(0..(NUM_POINT_LIGHTS - 1), RegularAtt, DarkColour),
                             MATERIAL_SHININESS, TORCH_EMISSIVE_STRENGTH,
                             Time(0, Zero, Zero, Zero), <<FOG_NEAR, FOG_FAR>>, fc)
        /\ frag = Fragment(Grey, c, One, 1, R(1, 2), cd, px, py)
        /\ nanClamp = "nan"

\* inputs that vary the torch's emissive term
TorchSweep ==
    \E tex \in {Grey, White, AtThreshold, Flame, Ember},
       l \in {TorchDirLight, OverbrightDirLight}, c \in {Zero, One},
       em \in EmissiveSamples, s8 \in SineSamples, s12 \in SineSamples,
       s16 \in SineSamples :
        /\ uniforms = Stores(l, Lights({}, RegularAtt, RegularColour), TORCH_SHININESS,
                             em, Time(0, s8, s12, s16), <<FOG_NEAR, FOG_FAR>>, FOG_COLOR)
        /\ frag = Fragment(tex, c, c, 1, R(1, 2), 1, 0, 0)
        /\ nanClamp = "nan"

\* inputs that vary the torch's emissive strength across the fog range that
\* setupTorchLighting configures
TorchFogSweep ==
    \E em \in {Zero, R(3, 10), TORCH_EMISSIVE_STRENGTH}, cd \in 0..MaxCamDist :
        /\ uniforms = Stores(TorchDirLight, Lights({}, RegularAtt, RegularColour),
                             TORCH_SHININESS, em, Time(0, Zero, Zero, Zero),
                             <<R(4, 1), R(7, 1)>>, Col(2, 2, 4, 100))
        /\ frag = Fragment(Grey, One, One, 1, R(1, 2), cd, 0, 0)
        /\ nanClamp = "nan"

\* inputs that break a precondition of the shaders: an attenuation denominator of 0
BrokenAttSweep ==
    \E l \in {<<LevelDirLight, BonfireColour>>, <<LevelDirLight, RegularColour>>},
       active \in {{0}, 0..(NUM_POINT_LIGHTS - 1)},
       ld \in 0..MaxLightDist, nm \in NanOutcomes :
        /\ uniforms = Stores(l[1], Lights(active, VanishingAtt, l[2]), MATERIAL_SHININESS,
                             TORCH_EMISSIVE_STRENGTH, Time(0, Zero, Zero, Zero),
                             <<FOG_NEAR, FOG_FAR>>, FOG_COLOR)
        /\ frag = Fragment(Grey, One, One, ld, R(1, 2), 1, 0, 0)
        /\ nanClamp = nm

\* inputs that break a precondition of the shaders: fogFar <= fogNear
BrokenFogSweep ==
    \E l \in {<<LevelDirLight, BonfireColour>>, <<LevelDirLight, RegularColour>>},
       fog \in BadFogSamples, em \in {Zero, R(1, 2)},
       cd \in 0..MaxCamDist, nm \in NanOutcomes :
        /\ uniforms = Stores(l[1], Lights({0}, BonfireAtt, l[2]), MATERIAL_SHININESS,
                             em, Time(0, Zero, Zero, Zero), fog, FOG_COLOR)
        /\ frag = Fragment(Grey, One, One, 1, R(1, 2), cd, 0, 0)
        /\ nanClamp = nm

\* the inputs meet the shaders' preconditions: every attenuation denominator
\* is positive and fogFar > fogNear
Preconditions ==
    /\ \A light \in UNION {{uniforms[s].pointLights[i] : i \in DOMAIN uniforms[s].pointLights} :
                             s \in {"level", "sword"}} :
          Lt(Zero, Inv(RawAttenuation(light, frag.lightDist)))
    /\ \A s \in {"level", "bonfire"} : Lt(uniforms[s].fogNear, uniforms[s].fogFar)


----------------------------------------------------------------------------
(* gameState.cpp, gameEngine.cpp: the objects the game loop works on.      *)
(* The camera's orientation and zoom, which the mouse-move and scroll      *)
(* callbacks change, are not modelled: nothing below reads them.           *)

\* the value of a variable that the specification at hand does not use
NotUsed == <<>>

VSub(v, w) == [i \in 1..3 |-> Sub(v[i], w[i])]

\* the square of glm::length(v)
Length2(v) == Dot(v, v)

\* the three step sounds loadAudioAssets asks for
NUM_STEP_SOUNDS == 3

\* where GameState() puts the camera
CAMERA_START == V3(Zero, Zero, R(3, 1))

\* the interactable setupGameInteractions adds, and its radius
INTERACTABLE_POS == V3(Zero, One, Zero)
INTERACTABLE_RADIUS == R(1, 1)

\* the renderer has not drawn a frame yet
NoView == <<>>

\* a position left as it is: no boundary applied
Unbounded(c) == c

\* if (c > BOUNDARY_LIMIT) c = BOUNDARY_LIMIT; if (c < -BOUNDARY_LIMIT) c = -BOUNDARY_LIMIT
Bounded(c) ==
    IF Lt(BOUNDARY_LIMIT, c) THEN BOUNDARY_LIMIT
    ELSE IF Lt(c, Neg(BOUNDARY_LIMIT)) THEN Neg(BOUNDARY_LIMIT)
    ELSE c

\* baseCameraPos of updateMovement: the position at the fixed height, inside the boundary
BaseCameraPos(position) == V3(Bounded(position[1]), CAMERA_HEIGHT, Bounded(position[3]))

\* the ground coordinates (x, z) of a position
Ground(position) == <<position[1], position[3]>>

\* glm::length(a - b) > MOVEMENT_THRESHOLD
MovedBeyondThreshold(a, b) ==
    Lt(Mul(MOVEMENT_THRESHOLD, MOVEMENT_THRESHOLD), Length2(VSub(a, b)))

\* the state GameState() constructs
Constructed ==
    [camera |-> CAMERA_START, deltaTime |-> Zero, lastFrame |-> Zero,
     firstMouse |-> TRUE, cursorLocked |-> TRUE, awaitingRelock |-> FALSE,
     lastCameraPos |-> CAMERA_START, stepCooldown |-> Zero, bobTimer |-> Zero,
     showInteractionPrompt |-> FALSE, popupTimer |-> Zero,
     showMenu |-> FALSE, showInventory |-> FALSE, showCrosshair |-> TRUE,
     showItemDescription |-> FALSE]

\* the engine after initialize() has loaded n step sounds
Initialized(n) ==
    [frame |-> 0, stepSounds |-> n, interactables |-> 1,
     prevGround |-> Ground(BaseCameraPos(CAMERA_START)),
     escHandled |-> FALSE, stepPlayed |-> FALSE, viewPos |-> NoView,
     guiDrawn |-> {}, mouseButton |-> "none"]

----------------------------------------------------------------------------
(* renderer.cpp: Renderer::render over the programs' uniform stores *)

MaxClock == 3           \* the clock stops advancing at MaxClock

\* sin(time * FLICKER_FREQ2 + BONFIRE_LIGHT_INDEX * FLICKER_PHASE2) at the
\* clock readings time = k * pi / 8, in tenths; the period is 16
SinF2Table ==
    <<1, -3, -6, -9, -10, -10, -8, -5, -1, 3, 6, 9, 10, 10, 8, 5>>

\* the clock reading k as a float: the time k * pi / 8 and its sines.
\* sin(8t) = sin(k pi) = 0, sin(12t) = sin(3 k pi / 2), sin(16t) = sin(2 k pi) = 0
\* are exact; sin(8t + 12) = (-1)^k sin(12) and sin(15t + 6.4) are rounded.
TimeAt(k) ==
    [tick |-> k,
     sin8 |-> Zero,
     sin12 |-> <<(<<0, -1, 0, 1>>)[(k % 4) + 1], 1>>,
     sin16 |-> Zero,
     sinF1 |-> R(IF k % 2 = 0 THEN -5 ELSE 5, 10),
     sinF2 |-> R(SinF2Table[(k % 16) + 1], 10)]

FLICKER_BASE == R(9, 10)
FLICKER_AMPLITUDE == R(1, 10)

\* the largest element of a non-empty set of integers
MaxOf(S) == CHOOSE x \in S : \A y \in S : y <= x

\* the value of the last write among ws to the uniform named by key, or old.
\* A write is << kind, name..., value >>; its key is all but the value.
LastWrite(ws, key, old) ==
    LET hits == {k \in 1..Len(ws) : SubSeq(ws[k], 1, Len(ws[k]) - 1) = key}
    IN  IF hits = {} THEN old ELSE LET w == ws[MaxOf(hits)] IN w[Len(w)]

\* glUniform* for the writes ws in order: every uniform the program declares
\* ends with the last value written to it; a name the program does not
\* declare has location -1 and its writes are ignored
SetUniforms(store, ws) ==
    [n \in DOMAIN store |->
        CASE n = "pointLights" ->
                [i \in DOMAIN store.pointLights |->
                    [fld \in DOMAIN store.pointLights[i] |->
                        LastWrite(ws, <<"light", i, fld>>, store.pointLights[i][fld])]]
          [] n \in {"dirLight", "material"} ->
                [fld \in DOMAIN store[n] |->
                    LastWrite(ws, <<"field", n, fld>>, store[n][fld])]
          [] OTHER -> LastWrite(ws, <<"top", n>>, store[n])]

\* one glUniform* call
SetUniform(store, w) == SetUniforms(store, <<w>>)

\* BonfireFlicker with the two sinusoids added instead of multiplied
BonfireFlickerSum(time) ==
    Add(FLICKER_BASE, Mul(FLICKER_AMPLITUDE, Add(time.sinF1, time.sinF2)))

\* the flicker scalar of the bonfire light
BonfireFlicker(time) ==
    Add(FLICKER_BASE, Mul(Mul(FLICKER_AMPLITUDE, time.sinF1), time.sinF2))

\* SetupLight with the flicker applied to the diffuse colour alone
SetupLightDiffuseOnly(i, time) ==
    IF i = BONFIRE_LIGHT_INDEX
    THEN << <<"light", i, "ambient", BONFIRE_AMBIENT_BASE>>,
            <<"light", i, "diffuse", VScale(BONFIRE_DIFFUSE_BASE, BonfireFlicker(time))>>,
            <<"light", i, "specular", BONFIRE_SPECULAR>>,
            <<"light", i, "constant", LIGHT_CONSTANT>>,
            <<"light", i, "linear", BONFIRE_LINEAR>>,
            <<"light", i, "quadratic", BONFIRE_QUADRATIC>> >>
    ELSE << <<"light", i, "ambient", REGULAR_LIGHT_COLOR>>,
            <<"light", i, "diffuse", REGULAR_LIGHT_COLOR>>,
            <<"light", i, "specular", REGULAR_LIGHT_COLOR>>,
            <<"light", i, "constant", LIGHT_CONSTANT>>,
            <<"light", i, "linear", REGULAR_LINEAR>>,
            <<"light", i, "quadratic", REGULAR_QUADRATIC>> >>

\* the body of setupLighting's loop for light i
SetupLight(i, time) ==
    IF i = BONFIRE_LIGHT_INDEX
    THEN LET flicker == BonfireFlicker(time)
         IN  << <<"light", i, "ambient", VScale(BONFIRE_AMBIENT_BASE, flicker)>>,
                <<"light", i, "diffuse", VScale(BONFIRE_DIFFUSE_BASE, flicker)>>,
                <<"light", i, "specular", BONFIRE_SPECULAR>>,
                <<"light", i, "constant", LIGHT_CONSTANT>>,
                <<"light", i, "linear", BONFIRE_LINEAR>>,
                <<"light", i, "quadratic", BONFIRE_QUADRATIC>> >>
    ELSE << <<"light", i, "ambient", REGULAR_LIGHT_COLOR>>,
            <<"light", i, "diffuse", REGULAR_LIGHT_COLOR>>,
            <<"light", i, "specular", REGULAR_LIGHT_COLOR>>,
            <<"light", i, "constant", LIGHT_CONSTANT>>,
            <<"light", i, "linear", REGULAR_LINEAR>>,
            <<"light", i, "quadratic", REGULAR_QUADRATIC>> >>

RECURSIVE SetupLights(_, _)
SetupLights(i, time) ==
    IF i >= NUM_POINT_LIGHTS THEN <<>> ELSE SetupLight(i, time) \o SetupLights(i + 1, time)

\* setupLighting without its writes of the directional light and of the fog
setupLightingLightsOnly(time) ==
    SetupLights(0, time)
    \o << <<"field", "material", "shininess", MATERIAL_SHININESS>>,
          <<"field", "material", "alpha", MATERIAL_ALPHA>> >>

\* the uniform writes of Renderer::setupLighting(shader, time), in order
setupLighting(time) ==
    << <<"field", "dirLight", "ambient", DIR_LIGHT_AMBIENT>>,
       <<"field", "dirLight", "diffuse", DIR_LIGHT_DIFFUSE>>,
       <<"field", "dirLight", "specular", DIR_LIGHT_SPECULAR>> >>
    \o SetupLights(0, time)
    \o << <<"field", "material", "shininess", MATERIAL_SHININESS>>,
          <<"field", "material", "alpha", MATERIAL_ALPHA>>,
          <<"top", "fogNear", FOG_NEAR>>,
          <<"top", "fogFar", FOG_FAR>>,
          <<"top", "fogColor", FOG_COLOR>> >>

\* the uniform writes of Renderer::setupTorchLighting(shader, time), in order
setupTorchLighting(time) ==
    << <<"field", "dirLight", "ambient", TORCH_DIR_AMBIENT>>,
       <<"field", "dirLight", "diffuse", TORCH_DIR_DIFFUSE>>,
       <<"field", "dirLight", "specular", DIR_LIGHT_SPECULAR>>,
       <<"field", "material", "shininess", TORCH_SHININESS>>,
       <<"field", "material", "emissiveStrength", TORCH_EMISSIVE_STRENGTH>>,
       <<"top", "time", time>>,
       <<"top", "fogNear", R(4, 1)>>,
       <<"top", "fogFar", R(7, 1)>>,
       <<"top", "fogColor", Col(2, 2, 4, 100)>> >>

RECURSIVE BeamLightsOff(_)
BeamLightsOff(i) ==
    IF i >= NUM_POINT_LIGHTS THEN <<>>
    ELSE << <<"light", i, "diffuse", VZero>>,
            <<"light", i, "ambient", VZero>>,
            <<"light", i, "specular", VZero>> >> \o BeamLightsOff(i + 1)

\* the uniform writes of renderLightBeam before its first layer
BeamLighting ==
    << <<"field", "dirLight", "ambient", Col(25, 25, 20, 10)>>,
       <<"field", "dirLight", "diffuse", Col(25, 25, 20, 10)>>,
       <<"field", "dirLight", "specular", VZero>> >>
    \o BeamLightsOff(0)
    \o << <<"field", "material", "shininess", R(1, 1)>>,
          <<"top", "fogNear", R(999, 1)>>,
          <<"top", "fogFar", R(1000, 1)>> >>

\* the material.alpha renderLightBeam passes for its four layers
BeamAlphas == <<R(15, 100), R(25, 100), R(35, 100), R(5, 10)>>

\* the last value the writes ws pass for material.alpha, or old
LastAlpha(ws, old) == LastWrite(ws, <<"field", "material", "alpha">>, old)

\* model->Draw(shader) with program s on its store: o is the program's
\* output for the fragment drawn
Draw(call, s, store, alpha, isBlend, o) ==
    [call |-> call, program |-> s, alphaArg |-> alpha, blend |-> isBlend,
     store |-> store, rgb |-> o.rgb, alpha |-> o.alpha]

\* a draw call whose set-up read the clock as time
TimedDraw(call, s, store, alpha, isBlend, o, time) ==
    Draw(call, s, store, alpha, isBlend, o) @@ [time |-> time]

\* a freshly linked program: every uniform is 0
ZeroLights ==
    [i \in 0..(NUM_POINT_LIGHTS - 1) |->
        [constant |-> Zero, linear |-> Zero, quadratic |-> Zero,
         ambient |-> VZero, diffuse |-> VZero, specular |-> VZero]]

LinkedStores ==
    Stores(DirLight(VZero, VZero, VZero), ZeroLights, Zero, Zero, TimeAt(0),
           <<Zero, Zero>>, VZero)

\* no value has been passed for material.alpha
NoAlpha == <<>>

\* values of the two sinusoids of setupLighting's flicker
FlickerSines == {R(-1, 1), R(-1, 2), R(0, 1), R(1, 2), R(1, 1)}

\* inputs that setupLighting and setupTorchLighting leave in freshly linked
\* programs, for a time whose flicker sinusoids take the values s1 and s2
FlickerSweep ==
    \E s1 \in FlickerSines, s2 \in FlickerSines :
        /\ uniforms =
              [s \in Shaders |->
                  SetUniforms(LinkedStores[s],
                      IF s = "bonfire"
                      THEN setupTorchLighting([Time(0, Zero, Zero, Zero)
                                                 EXCEPT !.sinF1 = s1, !.sinF2 = s2])
                      ELSE setupLighting([Time(0, Zero, Zero, Zero)
                                            EXCEPT !.sinF1 = s1, !.sinF2 = s2]))]
        /\ alphaArg = [s \in Shaders |-> IF s = "bonfire" THEN NoAlpha ELSE MATERIAL_ALPHA]
        /\ frag = Fragment(Grey, One, One, 1, R(1, 2), 1, 0, 0)
        /\ nanClamp = "nan"

ShadeInit ==
    /\ interact = NotUsed
    /\ mouse = NotUsed
    /\ steps = NotUsed
    /\ pc = "input"
    /\ shaded = "none"
    /\ out = NoOutput
    /\ clock = 0
    /\ hasBrokenSword = FALSE
    /\ swordType = ""
    /\ blend = FALSE
    /\ depthMask = TRUE
    /\ draws = <<>>
    /\ quantIn = NoQuantize
    /\ quantOut = NoQuantize
    /\ gameState = Constructed
    /\ engine = Initialized(NUM_STEP_SOUNDS)
    /\ \/ /\ alphaArg = [s \in Shaders |-> NoAlpha]
          /\ (LightSweep \/ SpecularSweep \/ FogSweep \/ TorchSweep
                \/ ScenarioSweep \/ BrokenAttSweep \/ BrokenFogSweep
                \/ TorchFogSweep)
       \/ FlickerSweep

\* one fragment invocation of program s on the inputs
Invoke(s) ==
    /\ pc = "input"
    /\ pc' = "shaded"
    /\ out' = Shade(s, uniforms[s], frag, nanClamp)
    /\ UNCHANGED <<unitVars, uniforms, frag, nanClamp, clock, gameVars, glVars, quantVars, loopVars>>

\* the level shader runs on the inputs
ShadeLevel ==
    /\ Invoke("level")
    /\ shaded' = "level"

\* the torch shader runs on the inputs
ShadeTorch ==
    /\ Invoke("bonfire")
    /\ shaded' = "bonfire"

\* the sword shader runs on the inputs
ShadeSword ==
    /\ Invoke("sword")
    /\ shaded' = "sword"

ShadeNext == ShadeLevel \/ ShadeTorch \/ ShadeSword

SpecShade == ShadeInit /\ [][ShadeNext]_vars

\* the fragments watched in rendered frames
RenderFragments ==
    {Fragment(Grey, One, One, 1, R(1, 2), 1, 0, 0),
     Fragment(White, R(1, 2), One, 2, One, 5, 1, 0),
     Fragment(Flame, One, Zero, 3, Zero, MaxCamDist, 0, 0)}

Init ==
    /\ interact = NotUsed
    /\ mouse = NotUsed
    /\ steps = NotUsed
    /\ pc = "loop"
    /\ uniforms = LinkedStores
    /\ frag \in RenderFragments
    /\ nanClamp \in NanOutcomes
    /\ shaded = "none"
    /\ out = NoOutput
    /\ clock = 0
    /\ hasBrokenSword = FALSE
    /\ swordType = ""
    /\ alphaArg = [s \in Shaders |-> NoAlpha]
    /\ blend = FALSE
    /\ depthMask = TRUE
    /\ draws = <<>>
    /\ quantIn = NoQuantize
    /\ quantOut = NoQuantize
    /\ gameState = Constructed
    /\ engine = Initialized(NUM_STEP_SOUNDS)

\* the wall clock advances; it may do so between any two steps
Tick ==
    /\ clock < MaxClock
    /\ clock' = clock + 1
    /\ UNCHANGED <<unitVars, shadeVars, gameVars, glVars, quantVars, loopVars>>

\* the interaction callback of the broken sword (GameEngine::setupGameInteractions)
PickUpSword ==
    /\ pc = "loop"
    /\ ~hasBrokenSword
    /\ hasBrokenSword' = TRUE
    /\ swordType' = "broken"
    /\ UNCHANGED <<unitVars, shadeVars, clock, glVars, quantVars, loopVars>>

\* Renderer::render up to and including renderLevel(); the frame's watched
\* fragment is chosen here
RenderLevel ==
    /\ pc = "loop"
    /\ \E f \in RenderFragments :
        LET time == TimeAt(clock)
            ws == setupLighting(time)
            store == SetUniforms(uniforms["level"], ws)
            alpha == LastAlpha(ws, alphaArg["level"])
        IN  /\ frag' = f
            /\ uniforms' = [uniforms EXCEPT !["level"] = store]
            /\ alphaArg' = [alphaArg EXCEPT !["level"] = alpha]
            /\ shaded' = "level"
            /\ out' = Shade("level", store, f, nanClamp)
            /\ draws' = <<TimedDraw("level", "level", store, alpha, blend, out', time)>>
    /\ pc' = "renderBonfire"
    /\ UNCHANGED <<unitVars, nanClamp, clock, gameVars, blend, depthMask, quantVars, loopVars>>

\* Renderer::renderBonfire(gameState->hasBrokenSword)
RenderBonfire ==
    /\ pc = "renderBonfire"
    /\ LET time == TimeAt(clock)
           ws == setupTorchLighting(time)
           store == SetUniforms(uniforms["bonfire"], ws)
           alpha == LastAlpha(ws, alphaArg["bonfire"])
           model == IF ~hasBrokenSword THEN "bonfireSword" ELSE "bonfire"
       IN  /\ uniforms' = [uniforms EXCEPT !["bonfire"] = store]
           /\ alphaArg' = [alphaArg EXCEPT !["bonfire"] = alpha]
           /\ shaded' = "bonfire"
           /\ out' = Shade("bonfire", store, frag, nanClamp)
           /\ draws' = Append(draws, TimedDraw(model, "bonfire", store, alpha, blend,
                                               out', time))
    /\ pc' = "renderSword"
    /\ UNCHANGED <<unitVars, frag, nanClamp, clock, gameVars, blend, depthMask, quantVars, loopVars>>

\* Renderer::renderSword(gameState->swordType)
RenderSword ==
    /\ pc = "renderSword"
    /\ LET time == TimeAt(clock)
           ws == setupLighting(time)
           store == SetUniforms(uniforms["sword"], ws)
           alpha == LastAlpha(ws, alphaArg["sword"])
       IN  /\ uniforms' = [uniforms EXCEPT !["sword"] = store]
           /\ alphaArg' = [alphaArg EXCEPT !["sword"] = alpha]
           /\ IF swordType = "broken"
              THEN /\ shaded' = "sword"
                   /\ out' = Shade("sword", store, frag, nanClamp)
                   /\ draws' = Append(draws, TimedDraw("brokenSword", "sword", store,
                                                       alpha, blend, out', time))
              ELSE UNCHANGED <<draws, shaded, out>>
    /\ pc' = "renderLightBeam"
    /\ UNCHANGED <<unitVars, frag, nanClamp, clock, gameVars, blend, depthMask, quantVars, loopVars>>

\* the draws of the light beam's layers from layer k on, with the store they
\* leave behind: << draws, store >>
RECURSIVE BeamLayers(_, _)
BeamLayers(k, store) ==
    IF k > Len(BeamAlphas) THEN << <<>>, store >>
    ELSE LET w == <<"field", "material", "alpha", BeamAlphas[k]>>
             st == SetUniform(store, w)
             rest == BeamLayers(k + 1, st)
         IN  << <<Draw("lightBeam", "level", st, BeamAlphas[k], TRUE,
                       Shade("level", st, frag, nanClamp))>>
                  \o rest[1],
                rest[2] >>

\* Renderer::renderLightBeam(), which ends Renderer::render
RenderLightBeam ==
    /\ pc = "renderLightBeam"
    /\ LET lit == SetUniforms(uniforms["level"], BeamLighting)
           layers == BeamLayers(1, lit)
       IN  /\ uniforms' = [uniforms EXCEPT !["level"] = layers[2]]
           /\ alphaArg' = [alphaArg EXCEPT !["level"] = BeamAlphas[Len(BeamAlphas)]]
           /\ draws' = draws \o layers[1]
           /\ shaded' = "level"
           /\ out' = Shade("level", layers[2], frag, nanClamp)
    /\ blend' = FALSE
    /\ depthMask' = TRUE
    /\ pc' = "loop"
    /\ UNCHANGED <<unitVars, frag, nanClamp, clock, gameVars, quantVars, loopVars>>

Next == Tick \/ PickUpSword \/ RenderLevel \/ RenderBonfire \/ RenderSword \/ RenderLightBeam

Spec == Init /\ [][Next]_vars

----------------------------------------------------------------------------
(* quantizeColor as a function of 32-bit floats *)

MaxQuantIndex == 6

\* COLOR_LEVELS and LIGHTING_LEVELS, and levels that are no power of two
QuantLevels == {1, LIGHTING_LEVELS, COLOR_LEVELS, 11, 41}

\* the floats at and next to the level boundary k / levels, and the float
\* nearest to the middle of the level above it, for the lowest levels and
\* for the top one
QuantSamples(levels) ==
    UNION {({Fl(R(k, levels)), Fl(R(2 * k + 1, 2 * levels))}
             \cup (IF k = 0 THEN {}
                   ELSE {Ulps(Fl(R(k, levels)), -1), Ulps(Fl(R(k, levels)), 1)}))
           : k \in (0..MaxQuantIndex) \cup {levels - 1, levels}}

QuantizeInit ==
    /\ interact = NotUsed
    /\ mouse = NotUsed
    /\ steps = NotUsed
    /\ pc = "quantize"
    /\ uniforms = LinkedStores
    /\ frag = Fragment(Grey, One, One, 1, One, 1, 0, 0)
    /\ nanClamp = "nan"
    /\ shaded = "none"
    /\ out = NoOutput
    /\ clock = 0
    /\ hasBrokenSword = FALSE
    /\ swordType = ""
    /\ alphaArg = [s \in Shaders |-> NoAlpha]
    /\ blend = FALSE
    /\ depthMask = TRUE
    /\ draws = <<>>
    /\ quantOut = NoQuantize
    /\ gameState = Constructed
    /\ engine = Initialized(NUM_STEP_SOUNDS)
    /\ \E levels \in QuantLevels :
          \E x \in QuantSamples(levels), y \in QuantSamples(levels) :
              quantIn = [levels |-> levels, x |-> x, y |-> y]

\* quantizeColor is applied to x and to y
QuantizeOnce ==
    /\ pc = "quantize"
    /\ pc' = "quantized"
    /\ quantOut' = [x |-> quantizeFloat(quantIn.x, quantIn.levels),
                    y |-> quantizeFloat(quantIn.y, quantIn.levels)]
    /\ UNCHANGED <<unitVars, uniforms, frag, nanClamp, shaded, out, clock, gameVars, glVars, quantIn, loopVars>>

\* quantizeColor is applied with the same levels to its own result for x
QuantizeAgain ==
    /\ pc = "quantized"
    /\ pc' = "requantized"
    /\ quantOut' = quantOut @@ [xx |-> quantizeFloat(quantOut.x, quantIn.levels)]
    /\ UNCHANGED <<unitVars, uniforms, frag, nanClamp, shaded, out, clock, gameVars, glVars, quantIn, loopVars>>

QuantizeNext == QuantizeOnce \/ QuantizeAgain

SpecQuantize == QuantizeInit /\ [][QuantizeNext]_vars

----------------------------------------------------------------------------
(* gameEngine.cpp: GameEngine::run, one action per call of the loop body *)

MaxFrames == 2          \* the window closes after MaxFrames frames
MaxLoopClock == 2       \* glfwGetTime() reads 0..MaxLoopClock clock steps

\* the length of a clock step in seconds
Seconds(t) == R(t, 5)

\* what the pressed movement keys add to the camera position in one frame:
\* nothing, a step towards the bonfire, a step below MOVEMENT_THRESHOLD, and
\* a step across the boundary that also changes the height
KeyMoves ==
    {VZero, V3(Zero, Zero, R(-5, 2)), V3(R(1, 200), Zero, Zero),
     V3(R(3, 1), R(1, 2), Zero)}

\* values of sin(bobTimer)
BobSines == {R(-1, 1), Zero, R(1, 10), R(1, 1)}

LoopInit ==
    /\ interact = NotUsed
    /\ mouse = NotUsed
    /\ steps = NotUsed
    /\ pc = "timing"
    /\ uniforms = LinkedStores
    /\ frag = Fragment(Grey, One, One, 1, One, 1, 0, 0)
    /\ nanClamp = "nan"
    /\ shaded = "none"
    /\ out = NoOutput
    /\ clock = 0
    /\ hasBrokenSword = FALSE
    /\ swordType = ""
    /\ alphaArg = [s \in Shaders |-> NoAlpha]
    /\ blend = FALSE
    /\ depthMask = TRUE
    /\ draws = <<>>
    /\ quantIn = NoQuantize
    /\ quantOut = NoQuantize
    /\ gameState = Constructed
    /\ \E n \in {0, NUM_STEP_SOUNDS} : engine = Initialized(n)

\* while (!glfwWindowShouldClose(window)) gameState.updateTiming();
UpdateTiming ==
    /\ pc = "timing"
    /\ engine.frame < MaxFrames
    /\ pc' = "input"
    /\ \E t \in clock..MaxLoopClock :
          /\ clock' = t
          /\ gameState' = [gameState EXCEPT !.deltaTime = Sub(Seconds(t), gameState.lastFrame),
                                            !.lastFrame = Seconds(t)]
    /\ engine' = [engine EXCEPT !.frame = @ + 1,
                                !.prevGround = Ground(BaseCameraPos(gameState.camera)),
                                !.escHandled = FALSE,
                                !.stepPlayed = FALSE]
    /\ UNCHANGED <<unitVars, uniforms, frag, nanClamp, shaded, out, gameVars, glVars, quantVars>>

\* inputHandler->processInput(window): esc is the state of the ESCAPE key,
\* move the sum of what ProcessKeyboard adds for the pressed movement keys
ProcessInput ==
    /\ pc = "input"
    /\ pc' = "movement"
    /\ \E esc \in BOOLEAN, move \in KeyMoves :
          /\ gameState' = [gameState EXCEPT
                              !.cursorLocked = IF esc THEN FALSE ELSE @,
                              !.awaitingRelock = IF esc /\ gameState.cursorLocked THEN TRUE ELSE @,
                              !.camera = VAdd(@, move)]
          /\ engine' = [engine EXCEPT !.escHandled = esc /\ gameState.cursorLocked]
    /\ UNCHANGED <<unitVars, uniforms, frag, nanClamp, shaded, out, clock, gameVars, glVars, quantVars>>

\* the assignments of updateMovement, given its baseCameraPos, whether
\* moveDistance > MOVEMENT_THRESHOLD, and the value of sin(bobTimer)
ApplyMovement(gs, base, moving, sine) ==
    [gs EXCEPT !.bobTimer = IF moving THEN Add(@, Mul(gs.deltaTime, BOB_SPEED)) ELSE Zero,
               !.camera = V3(base[1],
                             Add(CAMERA_HEIGHT, IF moving THEN Mul(sine, BOB_AMOUNT) ELSE Zero),
                             base[3]),
               !.lastCameraPos = base,
               !.stepCooldown = IF Lt(Zero, @) THEN Sub(@, gs.deltaTime) ELSE @]

\* void GameState::updateMovement()
updateMovement(gs, base, sine) ==
    ApplyMovement(gs, base, MovedBeyondThreshold(base, gs.lastCameraPos), sine)

\* gameState.updateMovement(); sin(0) is 0
UpdateMovement ==
    /\ pc = "movement"
    /\ pc' = "interaction"
    /\ \E sine \in BobSines :
          /\ gameState' = updateMovement(gameState, BaseCameraPos(gameState.camera), sine)
          /\ gameState'.bobTimer = Zero => sine = Zero
    /\ UNCHANGED <<unitVars, uniforms, frag, nanClamp, shaded, out, clock, gameVars, glVars,
                   quantVars, engine>>

\* interactionSystem.CheckInteractions(camera.Position, interactionText)
Near ==
    /\ engine.interactables > 0
    /\ Le(Length2(VSub(gameState.camera, INTERACTABLE_POS)),
          Mul(INTERACTABLE_RADIUS, INTERACTABLE_RADIUS))

\* gameState.updateInteraction(window): ePressed is the state of the E key
UpdateInteraction ==
    /\ pc = "interaction"
    /\ pc' = "popup"
    /\ \E ePressed \in BOOLEAN :
          IF Near /\ ePressed /\ ~gameState.awaitingRelock
          THEN /\ gameState' = [gameState EXCEPT !.awaitingRelock = TRUE,
                                                 !.showInteractionPrompt = FALSE]
               /\ engine' = [engine EXCEPT !.interactables = @ - 1]
               /\ hasBrokenSword' = TRUE
               /\ swordType' = "broken"
          ELSE /\ gameState' = [gameState EXCEPT
                                   !.awaitingRelock = IF Near /\ ePressed THEN @ ELSE FALSE,
                                   !.showInteractionPrompt = Near]
               /\ UNCHANGED <<engine, gameVars>>
    /\ UNCHANGED <<unitVars, uniforms, frag, nanClamp, shaded, out, clock, glVars, quantVars>>

\* gameState.updatePopup()
UpdatePopup ==
    /\ pc = "popup"
    /\ pc' = "audio"
    /\ gameState' = [gameState EXCEPT
                        !.popupTimer = IF Lt(Zero, @)
                                       THEN FMax(Sub(@, gameState.deltaTime), Zero)
                                       ELSE @]
    /\ UNCHANGED <<unitVars, uniforms, frag, nanClamp, shaded, out, clock, gameVars, glVars,
                   quantVars, engine>>

\* handleMovementAudio(); which of the step sounds is played is not recorded
HandleMovementAudio ==
    /\ pc = "audio"
    /\ pc' = "render"
    /\ IF /\ MovedBeyondThreshold(gameState.camera, gameState.lastCameraPos)
          /\ Le(gameState.stepCooldown, Zero)
          /\ engine.stepSounds > 0
       THEN /\ engine' = [engine EXCEPT !.stepPlayed = TRUE]
            /\ gameState' = [gameState EXCEPT !.stepCooldown = STEP_COOLDOWN]
       ELSE UNCHANGED <<engine, gameState>>
    /\ UNCHANGED <<unitVars, uniforms, frag, nanClamp, shaded, out, clock, gameVars, glVars, quantVars>>

\* renderer->render(): the shaders' viewPos is the camera position
RenderFrame ==
    /\ pc = "render"
    /\ pc' = "gui"
    /\ engine' = [engine EXCEPT !.viewPos = gameState.camera]
    /\ UNCHANGED <<unitVars, uniforms, frag, nanClamp, shaded, out, clock, gameVars, glVars,
                   quantVars, gameState>>

\* the components GUI::Render draws
GuiComponents(gs) ==
    (IF gs.showMenu THEN {"menu"}
     ELSE (IF gs.showCrosshair THEN {"crosshair"} ELSE {}) \cup {"prompt", "popup"})
    \cup (IF gs.showInventory THEN {"inventory"} ELSE {})
    \cup (IF gs.showItemDescription THEN {"description"} ELSE {})

\* gui->NewFrame(); gui->Render(&gameState); the menu's Resume button closes it
GuiRender ==
    /\ pc = "gui"
    /\ pc' = "poll"
    /\ engine' = [engine EXCEPT !.guiDrawn = GuiComponents(gameState)]
    /\ \E resume \in BOOLEAN :
          gameState' = [gameState EXCEPT !.showMenu = @ /\ ~resume]
    /\ UNCHANGED <<unitVars, uniforms, frag, nanClamp, shaded, out, clock, gameVars, glVars, quantVars>>

\* InputHandler::mouse_button_callback for a press of the left button
mouse_button_callback(gs) ==
    IF gs.awaitingRelock /\ ~gs.cursorLocked
    THEN [gs EXCEPT !.cursorLocked = TRUE, !.awaitingRelock = FALSE, !.firstMouse = TRUE]
    ELSE gs

\* glfwSwapBuffers(window); glfwPollEvents(): the callbacks run here, and
\* only here
PollEvents ==
    /\ pc = "poll"
    /\ pc' = "timing"
    /\ \E event \in {"none", "left-press"} :
          /\ engine' = [engine EXCEPT !.mouseButton = event]
          /\ gameState' = IF event = "left-press" THEN mouse_button_callback(gameState)
                          ELSE gameState
    /\ UNCHANGED <<unitVars, uniforms, frag, nanClamp, shaded, out, clock, gameVars, glVars, quantVars>>

LoopNext ==
    \/ UpdateTiming \/ ProcessInput \/ UpdateMovement \/ UpdateInteraction
    \/ UpdatePopup \/ HandleMovementAudio \/ RenderFrame \/ GuiRender \/ PollEvents

SpecLoop == LoopInit /\ [][LoopNext]_vars

----------------------------------------------------------------------------
(* interactionSystem.cpp, GameState::updateInteraction with eKeyPressed:   *)
(* the interactables, the player among them and the E key.                 *)

\* what AddInteractable(pos, text, callback) appends; onInteract names the callback
Interactable(pos, text, callback) ==
    [position |-> pos, radius |-> One, promptText |-> text, onInteract |-> callback,
     consumed |-> FALSE]

\* glm::length(playerPos - obj.position) <= obj.radius
InRange(obj, playerPos) ==
    Le(Length2(VSub(playerPos, obj.position)), Mul(obj.radius, obj.radius))

\* the index of the object the loops of CheckInteractions and
\* HandleInteraction return at, or 0 when they run to the end
FirstInRange(objs, playerPos) ==
    IF \E k \in 1..Len(objs) : ~objs[k].consumed /\ InRange(objs[k], playerPos)
    THEN CHOOSE k \in 1..Len(objs) :
            /\ ~objs[k].consumed /\ InRange(objs[k], playerPos)
            /\ \A j \in 1..(k - 1) : objs[j].consumed \/ ~InRange(objs[j], playerPos)
    ELSE 0

\* InteractionSystem::CheckInteractions(playerPos, outText)
CheckInteractions(objs, playerPos, outText) ==
    [found |-> FirstInRange(objs, playerPos) # 0,
     outText |-> IF FirstInRange(objs, playerPos) # 0
                 THEN objs[FirstInRange(objs, playerPos)].promptText
                 ELSE outText]

\* HandleInteraction that leaves the object it handled usable
HandleInteractionKeeping(objs, playerPos) ==
    [handled |-> FirstInRange(objs, playerPos) # 0,
     invoked |-> IF FirstInRange(objs, playerPos) # 0
                 THEN objs[FirstInRange(objs, playerPos)].onInteract
                 ELSE "",
     interactables |-> objs]

\* InteractionSystem::HandleInteraction(playerPos), which marks the object consumed
HandleInteraction(objs, playerPos) ==
    [handled |-> FirstInRange(objs, playerPos) # 0,
     invoked |-> IF FirstInRange(objs, playerPos) # 0
                 THEN objs[FirstInRange(objs, playerPos)].onInteract
                 ELSE "",
     interactables |->
        IF FirstInRange(objs, playerPos) # 0
        THEN [objs EXCEPT ![FirstInRange(objs, playerPos)].consumed = TRUE]
        ELSE objs]

\* InteractionSystem::HandleInteraction(playerPos), which erases the object
HandleInteractionErase(objs, playerPos) ==
    [handled |-> FirstInRange(objs, playerPos) # 0,
     invoked |-> IF FirstInRange(objs, playerPos) # 0
                 THEN objs[FirstInRange(objs, playerPos)].onInteract
                 ELSE "",
     interactables |->
        IF FirstInRange(objs, playerPos) # 0
        THEN SubSeq(objs, 1, FirstInRange(objs, playerPos) - 1)
                \o SubSeq(objs, FirstInRange(objs, playerPos) + 1, Len(objs))
        ELSE objs]

\* the interactable of setupGameInteractions, and a second one next to it
SwordInteractable == Interactable(INTERACTABLE_POS, "E - Pull out.", "sword")
ChestInteractable == Interactable(V3(One, One, Zero), "E - Open", "chest")
Callbacks == {"sword", "chest"}

\* where the player stands: in range of the sword only, of both, of the
\* chest only, of neither
PlayerSpots ==
    {V3(R(-1, 2), CAMERA_HEIGHT, Zero), V3(R(1, 2), CAMERA_HEIGHT, Zero),
     V3(R(3, 2), CAMERA_HEIGHT, Zero), V3(R(3, 1), CAMERA_HEIGHT, Zero)}

\* the GameState constructor and setupGameInteractions, for an interaction
\* system of either revision: eKeyPressed(false), no prompt, no popup
Interacting(objs, erases) ==
    [interactables |-> objs,
     erases |-> erases,
     playerPos |-> V3(R(3, 1), CAMERA_HEIGHT, Zero),
     keyE |-> FALSE,
     eKeyPressed |-> FALSE,
     showInteractionPrompt |-> FALSE,
     interactionText |-> "",
     popupTimer |-> Zero,
     isNearObject |-> FALSE,
     interacted |-> "none",
     callbacks |-> [c \in Callbacks |-> 0],
     heldCalls |-> 0]

InteractInit ==
    /\ pc = "interaction"
    /\ uniforms = LinkedStores
    /\ frag = Fragment(Grey, One, One, 1, One, 1, 0, 0)
    /\ nanClamp = "nan"
    /\ shaded = "none"
    /\ out = NoOutput
    /\ clock = 0
    /\ hasBrokenSword = FALSE
    /\ swordType = ""
    /\ alphaArg = [s \in Shaders |-> NoAlpha]
    /\ blend = FALSE
    /\ depthMask = TRUE
    /\ draws = <<>>
    /\ quantIn = NoQuantize
    /\ quantOut = NoQuantize
    /\ gameState = Constructed
    /\ engine = Initialized(NUM_STEP_SOUNDS)
    /\ mouse = NotUsed
    /\ steps = NotUsed
    /\ \E objs \in {<<SwordInteractable>>, <<SwordInteractable, ChestInteractable>>,
                    <<ChestInteractable, SwordInteractable>>},
          erases \in BOOLEAN :
            interact = Interacting(objs, erases)

\* the player moves: processInput and updateMovement leave camera.Position at p
MovePlayer ==
    /\ \E p \in PlayerSpots : interact' = [interact EXCEPT !.playerPos = p]
    /\ UNCHANGED <<shadeVars, clock, gameVars, glVars, quantVars, loopVars, mouse, steps>>

\* the E key goes down
PressE ==
    /\ ~interact.keyE
    /\ interact' = [interact EXCEPT !.keyE = TRUE, !.heldCalls = 0]
    /\ UNCHANGED <<shadeVars, clock, gameVars, glVars, quantVars, loopVars, mouse, steps>>

\* the E key goes up
ReleaseE ==
    /\ interact.keyE
    /\ interact' = [interact EXCEPT !.keyE = FALSE, !.heldCalls = 0]
    /\ UNCHANGED <<shadeVars, clock, gameVars, glVars, quantVars, loopVars, mouse, steps>>

\* the branch of updateInteraction that calls HandleInteraction: h is what it returned
Interacted(g, text, h) ==
    [g EXCEPT !.eKeyPressed = TRUE,
              !.isNearObject = TRUE,
              !.interacted = IF h.handled THEN "true" ELSE "false",
              !.interactables = h.interactables,
              !.showInteractionPrompt = ~h.handled,
              !.interactionText = IF h.handled THEN "" ELSE text,
              !.popupTimer = IF h.handled THEN R(3, 1) ELSE @,
              !.callbacks = [c \in Callbacks |-> IF c = h.invoked THEN @[c] + 1 ELSE @[c]],
              !.heldCalls = @ + 1]

\* GameState::updateInteraction(window) on g, where c is what
\* CheckInteractions returned
updateInteraction(g, c) ==
    IF c.found
    THEN IF g.keyE /\ ~g.eKeyPressed
         THEN Interacted(g, c.outText,
                         IF g.erases
                         THEN HandleInteractionErase(g.interactables, g.playerPos)
                         ELSE HandleInteraction(g.interactables, g.playerPos))
         ELSE [g EXCEPT !.showInteractionPrompt = TRUE,
                        !.interactionText = c.outText,
                        !.isNearObject = TRUE,
                        !.interacted = "none",
                        !.eKeyPressed = IF g.keyE THEN @ ELSE FALSE]
    ELSE [g EXCEPT !.showInteractionPrompt = FALSE,
                   !.interactionText = "",
                   !.isNearObject = FALSE,
                   !.interacted = "none",
                   !.eKeyPressed = FALSE]

\* one frame's gameState.updateInteraction(window), callbacks included
UpdateInteractionFrame ==
    /\ interact' = updateInteraction(interact,
                        CheckInteractions(interact.interactables, interact.playerPos, ""))
    /\ hasBrokenSword' = (hasBrokenSword \/ interact'.callbacks["sword"] > 0)
    /\ swordType' = IF interact'.callbacks["sword"] > 0 THEN "broken" ELSE swordType
    /\ UNCHANGED <<shadeVars, clock, glVars, quantVars, loopVars, mouse, steps>>

InteractNext == MovePlayer \/ PressE \/ ReleaseE \/ UpdateInteractionFrame

SpecInteract == InteractInit /\ [][InteractNext]_vars

----------------------------------------------------------------------------
(* gameEngine.cpp, gameState.cpp: the footstep timer over a run of frames. *)

MaxStepFrames == 4     \* frames of the footstep run
DeltaSamples == {Zero, R(3, 10), R(3, 5), R(1, 1)}
StepMoves == {VZero, V3(R(1, 2), Zero, Zero)}

\* the GameState constructor: what updateTiming, updateMovement and
\* handleMovementAudio work on, with the time since the last footstep
Stepping(n) ==
    [camera |-> CAMERA_START, lastCameraPos |-> CAMERA_START, deltaTime |-> Zero,
     stepCooldown |-> Zero, bobTimer |-> Zero, stepSounds |-> n,
     frame |-> 0, played |-> FALSE, everPlayed |-> FALSE, sinceStep |-> Zero,
     gaps |-> <<>>]

StepsInit ==
    /\ pc = "timing"
    /\ uniforms = LinkedStores
    /\ frag = Fragment(Grey, One, One, 1, One, 1, 0, 0)
    /\ nanClamp = "nan"
    /\ shaded = "none"
    /\ out = NoOutput
    /\ clock = 0
    /\ hasBrokenSword = FALSE
    /\ swordType = ""
    /\ alphaArg = [s \in Shaders |-> NoAlpha]
    /\ blend = FALSE
    /\ depthMask = TRUE
    /\ draws = <<>>
    /\ quantIn = NoQuantize
    /\ quantOut = NoQuantize
    /\ gameState = Constructed
    /\ engine = Initialized(NUM_STEP_SOUNDS)
    /\ interact = NotUsed
    /\ mouse = NotUsed
    /\ \E n \in {0, NUM_STEP_SOUNDS} : steps = Stepping(n)

\* gameState.updateTiming(): the frame took dt seconds
StepTiming ==
    /\ pc = "timing"
    /\ steps.frame < MaxStepFrames
    /\ pc' = "input"
    /\ \E dt \in DeltaSamples :
          steps' = [steps EXCEPT !.deltaTime = dt,
                                 !.frame = @ + 1,
                                 !.played = FALSE,
                                 !.sinceStep = Add(@, dt)]
    /\ UNCHANGED <<uniforms, frag, nanClamp, shaded, out, clock, gameVars, glVars,
                   quantVars, loopVars, interact, mouse>>

\* inputHandler->processInput(window): the movement keys move the camera
StepInput ==
    /\ pc = "input"
    /\ pc' = "movement"
    /\ \E move \in StepMoves : steps' = [steps EXCEPT !.camera = VAdd(@, move)]
    /\ UNCHANGED <<uniforms, frag, nanClamp, shaded, out, clock, gameVars, glVars,
                   quantVars, loopVars, interact, mouse>>

\* gameState.updateMovement(); sin(0) is 0
StepMovement ==
    /\ pc = "movement"
    /\ pc' = "audio"
    /\ \E sine \in {Zero, R(1, 1)} :
          /\ steps' = updateMovement(steps, BaseCameraPos(steps.camera), sine)
          /\ steps'.bobTimer = Zero => sine = Zero
    /\ UNCHANGED <<uniforms, frag, nanClamp, shaded, out, clock, gameVars, glVars,
                   quantVars, loopVars, interact, mouse>>

\* handleMovementAudio without the test of the cooldown
handleMovementAudioAnyTime(g) ==
    IF MovedBeyondThreshold(g.camera, g.lastCameraPos) /\ g.stepSounds > 0
    THEN [g EXCEPT !.played = TRUE,
                   !.stepCooldown = STEP_COOLDOWN,
                   !.gaps = IF g.everPlayed THEN <<g.sinceStep>> ELSE <<>>,
                   !.everPlayed = TRUE,
                   !.sinceStep = Zero]
    ELSE g

\* GameEngine::handleMovementAudio()
handleMovementAudio(g) ==
    IF /\ MovedBeyondThreshold(g.camera, g.lastCameraPos)
       /\ Le(g.stepCooldown, Zero)
       /\ g.stepSounds > 0
    THEN [g EXCEPT !.played = TRUE,
                   !.stepCooldown = STEP_COOLDOWN,
                   !.gaps = IF g.everPlayed THEN <<g.sinceStep>> ELSE <<>>,
                   !.everPlayed = TRUE,
                   !.sinceStep = Zero]
    ELSE g

\* handleMovementAudio(), at the end of the frame's updates
StepAudio ==
    /\ pc = "audio"
    /\ pc' = "timing"
    /\ steps' = handleMovementAudio(steps)
    /\ UNCHANGED <<uniforms, frag, nanClamp, shaded, out, clock, gameVars, glVars,
                   quantVars, loopVars, interact, mouse>>

StepsNext == StepTiming \/ StepInput \/ StepMovement \/ StepAudio

SpecSteps == StepsInit /\ [][StepsNext]_vars

----------------------------------------------------------------------------
(* inputHandler.cpp: the cursor lock and the mouse-move callback. The      *)
(* camera's orientation is kept as the sums of the offsets that            *)
(* ProcessMouseMovement was given.                                         *)

SCR_WIDTH == 1920
SCR_HEIGHT == 1080
MaxMouseEvents == 4    \* mouse-move events of a run
PointerXs == {0, SCR_WIDTH \div 2, 1000}
PointerYs == {SCR_HEIGHT \div 2, 600}

\* the GameState constructor: lastX(SCR_WIDTH / 2.0f), lastY(SCR_HEIGHT / 2.0f),
\* firstMouse(true), cursorLocked(true), awaitingRelock(false)
Pointing ==
    [lastX |-> SCR_WIDTH \div 2, lastY |-> SCR_HEIGHT \div 2,
     firstMouse |-> TRUE, cursorLocked |-> TRUE, awaitingRelock |-> FALSE,
     yaw |-> 0, pitch |-> 0, turns |-> 0, offset |-> <<0, 0>>,
     events |-> 0, travel |-> <<0, 0>>, sinceRelock |-> -1]

MouseInit ==
    /\ pc = "poll"
    /\ uniforms = LinkedStores
    /\ frag = Fragment(Grey, One, One, 1, One, 1, 0, 0)
    /\ nanClamp = "nan"
    /\ shaded = "none"
    /\ out = NoOutput
    /\ clock = 0
    /\ hasBrokenSword = FALSE
    /\ swordType = ""
    /\ alphaArg = [s \in Shaders |-> NoAlpha]
    /\ blend = FALSE
    /\ depthMask = TRUE
    /\ draws = <<>>
    /\ quantIn = NoQuantize
    /\ quantOut = NoQuantize
    /\ gameState = Constructed
    /\ engine = Initialized(NUM_STEP_SOUNDS)
    /\ interact = NotUsed
    /\ steps = NotUsed
    /\ mouse = Pointing

\* camera.ProcessMouseMovement(xoffset, yoffset), and the new last position
Turned(g, xpos, ypos, xoffset, yoffset) ==
    [g EXCEPT !.firstMouse = FALSE,
              !.lastX = xpos,
              !.lastY = ypos,
              !.yaw = @ + xoffset,
              !.pitch = @ + yoffset,
              !.turns = @ + 1,
              !.offset = <<xoffset, yoffset>>]

\* mouse_callback without the test of cursorLocked
mouse_callbackUnlocked(g, xpos, ypos) ==
    IF g.firstMouse
    THEN Turned(g, xpos, ypos, 0, 0)
    ELSE Turned(g, xpos, ypos, xpos - g.lastX, g.lastY - ypos)

\* InputHandler::mouse_callback(window, xposIn, yposIn)
mouse_callback(g, xpos, ypos) ==
    IF ~g.cursorLocked THEN g
    ELSE IF g.firstMouse
         THEN Turned(g, xpos, ypos, 0, 0)
         ELSE Turned(g, xpos, ypos, xpos - g.lastX, g.lastY - ypos)

\* a mouse-move event: GLFW calls mouse_callback with the pointer position
MouseMove ==
    /\ mouse.events < MaxMouseEvents
    /\ \E xpos \in PointerXs, ypos \in PointerYs :
          mouse' = [mouse_callback(mouse, xpos, ypos) EXCEPT
                       !.events = @ + 1,
                       !.travel = <<xpos - mouse.lastX, mouse.lastY - ypos>>,
                       !.sinceRelock = IF @ = 0 THEN 1 ELSE @]
    /\ UNCHANGED <<shadeVars, clock, gameVars, glVars, quantVars, loopVars, interact, steps>>

\* processInput with ESCAPE down: the cursor is unlocked
EscapeKey ==
    /\ mouse.cursorLocked
    /\ mouse' = [mouse EXCEPT !.cursorLocked = FALSE, !.awaitingRelock = TRUE,
                              !.sinceRelock = -1]
    /\ UNCHANGED <<shadeVars, clock, gameVars, glVars, quantVars, loopVars, interact, steps>>

\* a press of the left mouse button: GLFW calls mouse_button_callback
LeftClick ==
    /\ mouse' = [mouse_button_callback(mouse) EXCEPT
                    !.sinceRelock = IF ~mouse.cursorLocked /\ mouse.awaitingRelock
                                    THEN 0 ELSE @]
    /\ UNCHANGED <<shadeVars, clock, gameVars, glVars, quantVars, loopVars, interact, steps>>

MouseNext == MouseMove \/ EscapeKey \/ LeftClick

SpecMouse == MouseInit /\ [][MouseNext]_vars

----------------------------------------------------------------------------
(* Properties of the shaders, checked under SpecShade *)

InUnit(x) == Le(Zero, x) /\ Le(x, One)

Shaded(s) == pc = "shaded" /\ shaded = s

LightSum ==
    CASE shaded = "level" ->
            VAdd(CalcPS1DirLight(uniforms["level"].dirLight, frag.NdotL, frag.texColor),
                 VSum(out.point, 0, LEVEL_NR_POINT_LIGHTS - 1))
      [] shaded = "bonfire" ->
            VAdd(calculateTorchLighting(uniforms["bonfire"].dirLight, frag.NdotL,
                                        frag.texColor),
                 out.emissive)

\* C2: in the level and torch shaders the output RGB is
\* clamp(mix(fogColor, quantize(lit, 32), fogFactor) + dither, 0, 1), where
\* lit is the sum of the directional and point-light contributions plus, in
\* the torch shader, the emissive term: quantization precedes the fog mix
\* and dither follows it.
C2_FixedOrder ==
    (pc = "shaded" /\ shaded \in {"level", "bonfire"}) =>
        /\ out.lit = LightSum
        /\ \A i \in 1..3 :
            out.rgb[i] =
                Clamp(Add(Add(Mul(uniforms[shaded].fogColor[i], Sub(One, out.fogFactor)),
                              Mul(Div(Floor(Mul(out.lit[i], <<COLOR_LEVELS, 1>>)),
                                      <<COLOR_LEVELS, 1>>),
                                  out.fogFactor)),
                          out.dither),
                      Zero, One, nanClamp)

\* C2 witness: the level shader has shaded a fragment in a partial fog band
\* whose light sum is not a multiple of 1/32 and whose dither is not 0.
C2_Witness ==
    /\ Shaded("level") /\ Preconditions
    /\ Lt(Zero, out.fogFactor) /\ Lt(out.fogFactor, One)
    /\ out.quantized # out.lit
    /\ Lt(Zero, out.dither)
    /\ Lt(out.rgb[1], One)

\* what the fog stage yields at and beyond fogFar: the fog colour plus dither
FogColourPlusDither(fogColor) ==
    [i \in 1..3 |-> Clamp(Add(fogColor[i], out.dither), Zero, One, nanClamp)]

\* C5: both the level shader and the sword shader apply stepped fog: at a
\* camera distance >= fogFar the output is the fog colour plus dither, for
\* the fog values the caller sets on the program.
C5_SceneShadersApplyFog ==
    (pc = "shaded" /\ shaded \in {"level", "sword"} /\ Preconditions
        /\ Le(uniforms["level"].fogFar, frag.camDist))
    => out.rgb = FogColourPlusDither(uniforms["level"].fogColor)

\* C6: the attenuation factor a point light's (ambient + diffuse) term is
\* multiplied by is finite and never exceeds 1, for every attenuation triple
\* and distance >= 0.
C6_AttenuationAtMostOne ==
    (pc = "shaded" /\ shaded \in {"level", "sword"}) =>
        \A i \in DOMAIN out.attenuation :
            IsFinite(out.attenuation[i]) /\ Le(out.attenuation[i], One)

\* the raw attenuation of light i of the shaded program
RawAtt(i) == RawAttenuation(uniforms[shaded].pointLights[i], frag.lightDist)

\* C7: a point light contributes (ambient + diffuse) * floor(a * 8) / 8 with
\* a = 1 / (constant + linear*d + quadratic*d*d); for constant 1, linear
\* 0.25, quadratic 0.25 and d = 2 the factor is exactly 3/8.
C7_QuantizedAttenuation ==
    (pc = "shaded" /\ shaded \in {"level", "sword"}) =>
        \A t \in {<<uniforms[shaded].pointLights[i], out.point[i], out.attenuation[i]>> :
                      i \in DOMAIN out.point} :
            LET light == t[1]
                ambient == VScale(VMul(light.ambient, frag.texColor), R(1, 5))
                diffuse == VMul(VScale(light.diffuse, QuantizedDiff(frag.lightCos)),
                                frag.texColor)
                factor == Div(Floor(Mul(RawAttenuation(light, frag.lightDist), <<8, 1>>)),
                              <<8, 1>>)
            IN  /\ t[2] = VScale(VAdd(ambient, diffuse), factor)
                /\ t[3] = factor
                /\ (<<light.constant, light.linear, light.quadratic>> = RingAtt
                        /\ frag.lightDist = <<2, 1>>)
                    => t[3] = R(3, 8)

\* C7 witness: the level shader has shaded a fragment at distance 2 from a
\* lit point light with attenuation (1, 0.25, 0.25): raw attenuation 0.4.
C7_Witness ==
    /\ Shaded("level")
    /\ frag.lightDist = <<2, 1>>
    /\ RawAtt(0) = R(2, 5)
    /\ out.attenuation[0] = R(3, 8)
    /\ Lt(Zero, out.point[0][1])

\* C8: with fogFar > fogNear the level shader's fog factor is 1 at every
\* distance <= fogNear, where the quantized colour passes unchanged, and 0 at
\* every distance >= fogFar, where the output is the fog colour plus dither;
\* it is always a multiple of 1/8 and is non-increasing in distance.
C8_SteppedFog ==
    LET near == uniforms["level"].fogNear
        far == uniforms["level"].fogFar
    IN  (Shaded("level") /\ Lt(near, far)) =>
            /\ Le(frag.camDist, near) =>
                    (out.fogFactor = One /\ out.fogged = out.quantized)
            /\ Le(far, frag.camDist) =>
                    (out.fogFactor = Zero
                        /\ (Preconditions =>
                              out.rgb = FogColourPlusDither(uniforms["level"].fogColor)))
            /\ InUnit(out.fogFactor)
            /\ Floor(Mul(out.fogFactor, <<8, 1>>)) = Mul(out.fogFactor, <<8, 1>>)
            /\ \A d \in 0..(MaxCamDist + 1) :
                    Le(frag.camDist, <<d, 1>>) =>
                        Le(SteppedFogFactor(near, far, <<d, 1>>, nanClamp), out.fogFactor)

\* C8 witness: the level shader has shaded a fragment strictly between
\* fogNear and fogFar, in a fog band strictly between 0 and 1.
C8_Witness ==
    /\ Shaded("level")
    /\ Lt(uniforms["level"].fogNear, frag.camDist)
    /\ Lt(frag.camDist, uniforms["level"].fogFar)
    /\ Lt(Zero, out.fogFactor) /\ Lt(out.fogFactor, One)

\* C9: in the torch shader the emissive term is texColor * emissiveStrength *
\* flicker, plus (1.0, 0.6, 0.1) * emissiveStrength * flicker * 0.8 exactly
\* when the luminance exceeds 0.7; at luminance 0.7 and below nothing is added.
C9_HotSpotThreshold ==
    Shaded("bonfire") =>
        LET em == uniforms["bonfire"].material.emissiveStrength
            plain == [i \in 1..3 |-> Mul(Mul(frag.texColor[i], em), out.flicker)]
            boost == [i \in 1..3 |->
                        Mul(Mul(Mul(<<One, R(6, 10), R(1, 10)>>[i], em), out.flicker),
                            R(8, 10))]
            lum == Add(Add(Mul(frag.texColor[1], R(299, 1000)),
                           Mul(frag.texColor[2], R(587, 1000))),
                       Mul(frag.texColor[3], R(114, 1000)))
        IN  /\ Lt(R(7, 10), lum) => out.emissive = VAdd(plain, boost)
            /\ Le(lum, R(7, 10)) => out.emissive = plain

\* C9 witness: the torch shader has shaded a texel of luminance above 0.7
\* with a positive emissive strength, and the boost is in its emissive term.
C9_Witness ==
    /\ Shaded("bonfire")
    /\ frag.texColor = Flame
    /\ Lt(Zero, uniforms["bonfire"].material.emissiveStrength)
    /\ Lt(Mul(Mul(frag.texColor[3], uniforms["bonfire"].material.emissiveStrength),
              out.flicker),
          out.emissive[3])

\* C10: calculateFlicker yields clamp(0.8 + 0.1*s1 + 0.05*s2 + 0.03*s3, 0.5, 1.0),
\* a value in [0.5, 1.0], for all sine values s1, s2, s3 in [-1, 1].
C10_FlickerBounded ==
    Shaded("bonfire") =>
        LET t == uniforms["bonfire"].time
            sum == Add(Add(Add(R(8, 10), Mul(R(1, 10), t.sin8)), Mul(R(5, 100), t.sin12)),
                       Mul(R(3, 100), t.sin16))
        IN  /\ out.flicker = Clamp(sum, R(1, 2), One, nanClamp)
            /\ Le(R(1, 2), out.flicker)
            /\ Le(out.flicker, One)

\* C10 witness: the torch shader has evaluated the flicker with all three
\* sines at 1, the largest sum.
C10_Witness ==
    /\ Shaded("bonfire")
    /\ uniforms["bonfire"].time.sin8 = One
    /\ uniforms["bonfire"].time.sin12 = One
    /\ uniforms["bonfire"].time.sin16 = One
    /\ out.flicker = R(98, 100)

\* the flicker sinusoids of the time the programs were set up for
FlickerProduct == Mul(uniforms["bonfire"].time.sinF1, uniforms["bonfire"].time.sinF2)

\* C11: the flicker scalar setupLighting computes for the bonfire light is
\* base + amplitude * s1 * s2 and lies in [0.8, 1.0] for all s1, s2 in
\* [-1, 1], so the ambient and diffuse colours it sets never exceed their
\* base values and never fall below 80% of them.
C11_FlickerWithinAmplitude ==
    alphaArg["sword"] # NoAlpha =>
        LET light == uniforms["sword"].pointLights[BONFIRE_LIGHT_INDEX]
            flicker == Add(R(9, 10), Mul(R(1, 10), FlickerProduct))
        IN  /\ Le(R(8, 10), flicker) /\ Le(flicker, One)
            /\ light.ambient = VScale(BONFIRE_AMBIENT_BASE, flicker)
            /\ light.diffuse = VScale(BONFIRE_DIFFUSE_BASE, flicker)
            /\ \A i \in 1..3 :
                /\ Le(Mul(R(8, 10), BONFIRE_AMBIENT_BASE[i]), light.ambient[i])
                /\ Le(light.ambient[i], BONFIRE_AMBIENT_BASE[i])
                /\ Le(Mul(R(8, 10), BONFIRE_DIFFUSE_BASE[i]), light.diffuse[i])
                /\ Le(light.diffuse[i], BONFIRE_DIFFUSE_BASE[i])

\* C11 witness: the sword shader has run on lights set up with both
\* sinusoids at 1, where the bonfire light has exactly its base colours.
C11_Witness ==
    /\ Shaded("sword")
    /\ alphaArg["sword"] # NoAlpha
    /\ FlickerProduct = One
    /\ uniforms["sword"].pointLights[BONFIRE_LIGHT_INDEX].diffuse = BONFIRE_DIFFUSE_BASE

\* C12: the dither offset added to the channels of the pixel with integer
\* screen coordinates (x, y) is mod(x + y, 2) * 0.01, one of 0 and 0.01; it
\* depends on (x, y) alone, and the pixels next to it in x and in y get the
\* other value.
C12_DitherOfPixel ==
    pc = "shaded" =>
        /\ out.dither = Mul(<<(frag.px + frag.py) % 2, 1>>, R(1, 100))
        /\ out.dither \in {Zero, R(1, 100)}
        /\ out.dither = Dither(frag.px, frag.py)
        /\ Dither(frag.px + 1, frag.py) # out.dither
        /\ Dither(frag.px, frag.py + 1) # out.dither

\* the inputs of scenario A
ScenarioA ==
    /\ uniforms["level"].dirLight.ambient = Col(5, 5, 10, 1000)
    /\ uniforms["level"].dirLight.diffuse = Col(5, 5, 8, 100)
    /\ \A i \in DOMAIN uniforms["level"].pointLights :
          /\ uniforms["level"].pointLights[i].ambient = VZero
          /\ uniforms["level"].pointLights[i].diffuse = VZero
    /\ uniforms["level"].fogNear = R(4, 1)
    /\ uniforms["level"].fogFar = R(7, 1)
    /\ frag.NdotL = One
    /\ frag.texColor = Col(1, 1, 1, 2)
    /\ frag.camDist = One

\* C15: in scenario A on the level shader the fog factor is 1 and the output
\* RGB is quantize(ambient * base * 0.3 + diffuse * 1 * base, 32) plus the
\* dither offset, with no fog colour mixed in.
C15_ScenarioA ==
    (Shaded("level") /\ ScenarioA) =>
        /\ out.fogFactor = One
        /\ out.fogged = out.quantized
        /\ out.rgb = VAdd(quantizeColor(
                              VAdd(VScale(VMul(Col(5, 5, 10, 1000), Col(1, 1, 1, 2)), R(3, 10)),
                                   VMul(VScale(Col(5, 5, 8, 100), One), Col(1, 1, 1, 2))),
                              32),
                          VSplat(out.dither))
        /\ out.rgb = VAdd(V3(Zero, Zero, R(1, 32)), VSplat(out.dither))

\* C15 witness: the level shader has shaded scenario A under a fog colour
\* that differs from the lit colour.
C15_Witness ==
    /\ Shaded("level") /\ ScenarioA
    /\ uniforms["level"].fogColor = White
    /\ out.quantized = V3(Zero, Zero, R(1, 32))

\* C16: when fogFar <= fogNear, equality included, the fog factor used in
\* the mix is a defined value in [0, 1] at every camera distance, and the
\* output of the level and torch shaders is a defined colour in [0, 1]^3.
C16_BrokenFogStaysDefined ==
    (/\ pc = "shaded" /\ shaded \in {"level", "bonfire"}
     /\ Le(uniforms[shaded].fogFar, uniforms[shaded].fogNear)) =>
        /\ InUnit(out.fogFactor)
        /\ \A i \in 1..3 : InUnit(out.rgb[i])

\* the ambient and diffuse terms the sword shader accumulates, without the
\* specular terms
SwordDiffuseSum ==
    VAdd(SwordCalcPS1DirLight(uniforms["sword"].dirLight, frag.NdotL, frag.texColor),
         VSum(out.point, 0, SWORD_NR_POINT_LIGHTS - 1))

\* the specular terms the sword shader accumulates
SwordSpecularSum ==
    VAdd(out.dirSpecular, VSum(out.pointSpecular, 0, SWORD_NR_POINT_LIGHTS - 1))

\* C21: in the sword shader the colour before dither and clamp is
\* quantize(ambient + diffuse sum, 32) + specular sum: the specular terms
\* are added after the quantization and survive unrounded.
C21_SpecularBypassesQuantization ==
    Shaded("sword") =>
        out.quantized = VAdd(quantizeColor(SwordDiffuseSum, COLOR_LEVELS), SwordSpecularSum)

\* C22: in the torch shader the fog factor is clamp(floor(raw * 8) / 8 +
\* emissiveStrength * 0.5, 0, 1) with raw = clamp((fogFar - d) / (fogFar -
\* fogNear), 0, 1): the emissive boost is added after the quantization, not
\* before it; with TORCH_EMISSIVE_STRENGTH the fog factor is at least 0.75
\* at every distance.
C22_BoostAfterQuantization ==
    LET u == uniforms["bonfire"]
    IN  (Shaded("bonfire") /\ Lt(u.fogNear, u.fogFar)) =>
            /\ out.fogFactor =
                  Clamp(Add(Div(Floor(Mul(RawFogFactor(u.fogNear, u.fogFar, frag.camDist,
                                                      nanClamp),
                                          <<8, 1>>)),
                                <<8, 1>>),
                            Mul(u.material.emissiveStrength, R(1, 2))),
                        Zero, One, nanClamp)
            /\ u.material.emissiveStrength = TORCH_EMISSIVE_STRENGTH =>
                  Le(R(3, 4), out.fogFactor)

\* C22 witness: the torch shader has shaded a fragment whose fog factor is
\* strictly between 0 and 1 and differs from the one that quantizes after
\* adding the boost.
C22_Witness ==
    /\ Shaded("bonfire")
    /\ Lt(uniforms["bonfire"].fogNear, uniforms["bonfire"].fogFar)
    /\ Lt(Zero, out.fogFactor) /\ Lt(out.fogFactor, One)
    /\ out.fogFactor # TorchFogFactorBoostFirst(uniforms["bonfire"], frag.camDist, nanClamp)

\* the scalar by which a bonfire light's diffuse colour was scaled
DiffuseScale(light) == Div(light.diffuse[1], BONFIRE_DIFFUSE_BASE[1])

C28_ConfiguredLightsAccumulated ==
    alphaArg["sword"] # NoAlpha =>
        \A s \in {"level", "sword"} : \A i \in 0..(NUM_POINT_LIGHTS - 1) :
            /\ i \in DOMAIN uniforms[s].pointLights
            /\ Shaded(s) => i \in DOMAIN out.point

\* C29: the quantized attenuation cuts every point light off: where the raw
\* attenuation 1 / (constant + linear*d + quadratic*d*d) is below 1/8 the
\* light's whole contribution, ambient term included, is exactly zero; and
\* where it is in (0, 1] the attenuation used is one of 0, 1/8, ..., 1 and does
\* not increase with the distance d.
C29_HardCutoff ==
    Shaded("level") =>
        \A t \in {<<uniforms["level"].pointLights[i], out.point[i], out.attenuation[i]>> :
                      i \in DOMAIN out.point} :
            LET raw == RawAttenuation(t[1], frag.lightDist)
            IN  /\ Lt(raw, R(1, 8)) => t[2] = VZero
                /\ (Lt(Zero, raw) /\ Le(raw, One)) =>
                      /\ t[3] \in {R(k, 8) : k \in 0..8}
                      /\ \A d \in 0..(MaxLightDist + 1) :
                            Le(frag.lightDist, <<d, 1>>) =>
                                Le(PointAttenuation(t[1], <<d, 1>>), t[3])

\* C29 witness: the level shader has shaded a fragment lit by a point light
\* with a non-zero ambient colour whose raw attenuation there is positive
\* and below 1/8, and the light has contributed nothing.
C29_Witness ==
    /\ Shaded("level")
    /\ Lt(Zero, uniforms["level"].pointLights[0].ambient[1])
    /\ Lt(Zero, frag.texColor[1])
    /\ Lt(Zero, RawAtt(0)) /\ Lt(RawAtt(0), R(1, 8))
    /\ out.attenuation[0] = Zero
    /\ out.point[0] = VZero

----------------------------------------------------------------------------
(* Properties of a frame, checked under Spec *)

\* the draw calls of the current frame whose set-up read the clock
TimedDraws == {k \in DOMAIN draws : "time" \in DOMAIN draws[k]}

\* C3: within one call of Renderer::render the level, bonfire and sword
\* draws are all given the same time value, although the wall clock advances
\* while the frame is rendered.
C3_OneTimePerFrame ==
    \A j, k \in TimedDraws : draws[j].time = draws[k].time

\* C4: the alpha of every fragment output equals the material.alpha the
\* renderer passed for that draw: 1 by default, and 0.15, 0.25, 0.35 and 0.5
\* for the four layers of the light beam.
C4_OutputAlphaIsMaterialAlpha ==
    \A k \in DOMAIN draws :
        draws[k].alpha = IF draws[k].alphaArg = NoAlpha THEN One ELSE draws[k].alphaArg

\* the level draws of the current frame
LevelDraws == {k \in DOMAIN draws : draws[k].call = "level"}

\* C30: what renderLightBeam writes into the level program (overbright
\* directional light, point-light colours zeroed, fogNear/fogFar 999/1000,
\* shininess 1, the layers' alpha) never reaches a draw of the level: at every
\* level draw of every frame each of these uniforms has the value
\* setupLighting configures; and once renderLightBeam has returned blending
\* is off and depth writes are on.
C30_BeamOverridesUndone ==
    /\ \A k \in LevelDraws :
          /\ draws[k].store.dirLight =
                DirLight(DIR_LIGHT_AMBIENT, DIR_LIGHT_DIFFUSE, DIR_LIGHT_SPECULAR)
          /\ draws[k].store.fogNear = FOG_NEAR /\ draws[k].store.fogFar = FOG_FAR
          /\ draws[k].store.material.shininess = MATERIAL_SHININESS
          /\ draws[k].alphaArg = MATERIAL_ALPHA
          /\ draws[k].store = SetUniforms(draws[k].store, setupLighting(draws[k].time))
          /\ ~draws[k].blend
    /\ pc = "loop" => (~blend /\ depthMask)

\* C30 witness: the level has been drawn in a frame that follows a light-beam
\* pass (the bonfire program still holds the uniforms of the frame before),
\* with the fog range of setupLighting.
C30_Witness ==
    /\ pc = "renderBonfire"
    /\ LevelDraws = {1}
    /\ uniforms["bonfire"] # LinkedStores["bonfire"]
    /\ draws[1].store.fogNear = FOG_NEAR
    /\ draws[1].store.dirLight.ambient = DIR_LIGHT_AMBIENT

----------------------------------------------------------------------------
(* Properties of the game loop, checked under SpecLoop *)

\* C17: whenever the cursor is unlocked, a press of the left mouse button
\* relocks it, leaving cursorLocked = TRUE and awaitingRelock = FALSE,
\* whatever frame updates ran before the click.
C17_ClickRelocks ==
    [][(/\ pc = "poll" /\ pc' = "timing"
        /\ engine'.mouseButton = "left-press"
        /\ ~gameState.cursorLocked)
       => (gameState'.cursorLocked /\ ~gameState'.awaitingRelock)]_vars

\* C18: in a frame whose processInput saw ESC with the cursor locked, the
\* cursor is unlocked and showMenu is set when the GUI is rendered, and the
\* GUI draws the menu and none of crosshair, prompt and popup.
C18_EscOpensMenu ==
    /\ (engine.escHandled /\ pc = "gui") =>
          (~gameState.cursorLocked /\ gameState.showMenu)
    /\ (engine.escHandled /\ pc = "poll") =>
          /\ ~gameState.cursorLocked
          /\ "menu" \in engine.guiDrawn
          /\ engine.guiDrawn \cap {"crosshair", "prompt", "popup"} = {}

\* C19: at every call of Renderer::render the camera's x and z lie within
\* [-BOUNDARY_LIMIT, BOUNDARY_LIMIT] and its y within BOB_AMOUNT of
\* CAMERA_HEIGHT.
C19_CameraInBoundsAtRender ==
    engine.viewPos # NoView =>
        /\ Le(Neg(BOUNDARY_LIMIT), engine.viewPos[1]) /\ Le(engine.viewPos[1], BOUNDARY_LIMIT)
        /\ Le(Neg(BOUNDARY_LIMIT), engine.viewPos[3]) /\ Le(engine.viewPos[3], BOUNDARY_LIMIT)
        /\ Le(Sub(CAMERA_HEIGHT, BOB_AMOUNT), engine.viewPos[2])
        /\ Le(engine.viewPos[2], Add(CAMERA_HEIGHT, BOB_AMOUNT))

\* C19 witness: a frame was rendered with the camera held at the boundary
\* and at the top of the bob, after a second frame's movement.
C19_Witness ==
    /\ engine.viewPos # NoView /\ engine.frame = 2
    /\ engine.viewPos[1] = BOUNDARY_LIMIT
    /\ engine.viewPos[2] = Add(CAMERA_HEIGHT, BOB_AMOUNT)

\* the ground position g is more than MOVEMENT_THRESHOLD away from h
GroundMoved(g, h) ==
    Lt(Mul(MOVEMENT_THRESHOLD, MOVEMENT_THRESHOLD),
       Add(Mul(Sub(g[1], h[1]), Sub(g[1], h[1])), Mul(Sub(g[2], h[2]), Sub(g[2], h[2]))))

\* C20: handleMovementAudio plays a footstep only if the clamped ground
\* position moved by more than MOVEMENT_THRESHOLD since the previous frame;
\* if it did not move at all, no sound is played and stepCooldown is left
\* unchanged.
C20_FootstepOnlyWhenMoved ==
    [][(pc = "audio" /\ pc' = "render") =>
          /\ engine'.stepPlayed => GroundMoved(Ground(gameState.camera), engine.prevGround)
          /\ Ground(gameState.camera) = engine.prevGround =>
                /\ ~engine'.stepPlayed
                /\ gameState'.stepCooldown = gameState.stepCooldown]_vars

----------------------------------------------------------------------------
(* Properties of the interaction system, checked under SpecInteract *)

UnusedInRange(objs, g) ==
    \E k \in 1..Len(objs) :
        InRange(objs[k], g.playerPos) /\ g.callbacks[objs[k].onInteract] = 0

\* the callback of the object whose prompt text is shown
PromptOwner(text) == IF text = SwordInteractable.promptText THEN "sword" ELSE "chest"

\* a step that is one call of updateInteraction
InteractionFrameStep ==
    /\ interact' # interact
    /\ interact'.playerPos = interact.playerPos
    /\ interact'.keyE = interact.keyE

\* C25: every interactable is used at most once: once HandleInteraction has
\* handled an object, no later call at any player position runs its callback
\* or takes the prompt text from it, and a call returns true only if an
\* object that has not been used is in range.
C25_UsedAtMostOnce ==
    [][/\ \A c \in Callbacks :
            interact'.callbacks[c] > interact.callbacks[c] => interact.callbacks[c] = 0
       /\ InteractionFrameStep =>
            /\ interact'.isNearObject => UnusedInRange(interact.interactables, interact)
            /\ interact'.interacted = "true" => UnusedInRange(interact.interactables, interact)
            /\ interact'.showInteractionPrompt =>
                    interact'.callbacks[PromptOwner(interact'.interactionText)] = 0]_vars

\* C25 witness: the sword has been used, and a later frame in which the
\* player stood in range of it alone, with E pressed anew, found nothing.
C25_Witness ==
    /\ interact.callbacks["sword"] = 1
    /\ InRange(SwordInteractable, interact.playerPos)
    /\ ~InRange(ChestInteractable, interact.playerPos)
    /\ interact.keyE /\ interact.heldCalls = 0
    /\ ~interact.isNearObject /\ interact.interacted = "none"

----------------------------------------------------------------------------
(* Properties of the footstep timer, checked under SpecSteps *)

\* C26: footsteps are rate-limited: from one frame in which
\* handleMovementAudio plays a footstep to the next such frame, the
\* deltaTime values of the frames that follow the first, up to the second,
\* sum to at least STEP_COOLDOWN, whatever the frame times and movements.
C26_FootstepsRateLimited ==
    \A k \in 1..Len(steps.gaps) : Le(R(6, 10), steps.gaps[k])

\* C26 witness: a second footstep has just been played in a frame shorter
\* than the cooldown, the frames since the first one adding up to it.
C26_Witness ==
    /\ pc = "timing" /\ steps.played
    /\ Len(steps.gaps) = 1
    /\ Lt(Zero, steps.deltaTime) /\ Lt(steps.deltaTime, STEP_COOLDOWN)

----------------------------------------------------------------------------
(* Properties of the mouse callbacks, checked under SpecMouse *)

\* C27: a mouse-move event received while the cursor is unlocked leaves the
\* camera orientation and lastX/lastY as they were, and the first mouse-move
\* event after a relock gives the camera the offset (0, 0), however far the
\* pointer is from the last position recorded.
C27_UnlockedMouseIgnored ==
    [][mouse'.events = mouse.events + 1 =>
          /\ ~mouse.cursorLocked =>
                /\ mouse'.yaw = mouse.yaw /\ mouse'.pitch = mouse.pitch
                /\ mouse'.turns = mouse.turns
                /\ mouse'.lastX = mouse.lastX /\ mouse'.lastY = mouse.lastY
          /\ mouse.sinceRelock = 0 =>
                /\ mouse'.turns = mouse.turns + 1
                /\ mouse'.offset = <<0, 0>>
                /\ mouse'.yaw = mouse.yaw /\ mouse'.pitch = mouse.pitch]_vars

\* C27 witness: the first mouse-move event after a relock has been handled
\* with the pointer away from the last recorded position, after the camera
\* had been turned before the unlock.
C27_Witness ==
    /\ mouse.sinceRelock = 1
    /\ mouse.travel[1] # 0 /\ mouse.travel[2] # 0
    /\ mouse.offset = <<0, 0>>
    /\ mouse.yaw # 0

----------------------------------------------------------------------------
(* Properties of quantizeColor, checked under SpecQuantize *)

PowerOfTwo(n) == \E e \in 0..6 : n = 2 ^ e

\* C13 as stated: quantizing an already quantized value with the same levels
\* returns it unchanged, for every levels > 0 and every x >= 0.
C13_IdempotentForEveryLevels ==
    pc = "requantized" => quantOut.xx = quantOut.x

\* C13 as amended: quantizing an already quantized value with the same
\* levels returns it unchanged when levels is a power of two, as
\* COLOR_LEVELS and LIGHTING_LEVELS are.
C13_IdempotentForPowerOfTwoLevels ==
    (pc = "requantized" /\ PowerOfTwo(quantIn.levels)) => quantOut.xx = quantOut.x

\* C13 witness: a value strictly inside a level of COLOR_LEVELS was moved
\* down by the first quantization and kept by the second.
C13_Witness ==
    /\ pc = "requantized" /\ quantIn.levels = COLOR_LEVELS
    /\ Lt(Zero, quantOut.x) /\ Lt(quantOut.x, quantIn.x)
    /\ quantOut.xx = quantOut.x

\* x lies in [0, 1)
InHalfOpenUnit(x) == Le(Zero, x) /\ Lt(x, One)

\* C14 as stated: x <= y implies quantize(x) <= quantize(y); for x in [0, 1)
\* the result lies in [0, (levels - 1) / levels] and never exceeds x.
C14_MonotonicAndNeverAbove ==
    pc = "quantized" =>
        /\ Le(quantIn.x, quantIn.y) => Le(quantOut.x, quantOut.y)
        /\ InHalfOpenUnit(quantIn.x) =>
              /\ Le(Zero, quantOut.x)
              /\ Le(quantOut.x, Fl(R(quantIn.levels - 1, quantIn.levels)))
              /\ Le(quantOut.x, quantIn.x)

\* C14 as amended: x <= y implies quantize(x) <= quantize(y); for x in
\* [0, 1) the result lies in [0, (levels - 1) / levels], and it never exceeds
\* x when levels is a power of two, as COLOR_LEVELS and LIGHTING_LEVELS are.
C14_MonotonicAndInRange ==
    pc = "quantized" =>
        /\ Le(quantIn.x, quantIn.y) => Le(quantOut.x, quantOut.y)
        /\ InHalfOpenUnit(quantIn.x) =>
              /\ Le(Zero, quantOut.x)
              /\ Le(quantOut.x, Fl(R(quantIn.levels - 1, quantIn.levels)))
              /\ PowerOfTwo(quantIn.levels) => Le(quantOut.x, quantIn.x)

\* C14 witness: two values of [0, 1) in different levels of LIGHTING_LEVELS,
\* the smaller one strictly inside its level, were quantized to different
\* levels in the same order.
C14_Witness ==
    /\ pc = "quantized" /\ quantIn.levels = LIGHTING_LEVELS
    /\ InHalfOpenUnit(quantIn.y) /\ Lt(quantIn.x, quantIn.y)
    /\ Lt(quantOut.x, quantIn.x) /\ Lt(quantOut.x, quantOut.y)

====
